---- MODULE Spec2Model ----
(***************************************************************************)
(* World-book plugin: the lore entry activation gate (core/entry.py), the  *)
(* per-conversation session cache (core/session.py), the registry          *)
(* (core/lorebook.py), the cron trigger (core/scheduler.py) and the        *)
(* message handlers of main.py.                                            *)
(*                                                                         *)
(* Strings whose structure matters (entry names, message texts, keyword    *)
(* patterns) are sequences of one-character strings; identifiers that are  *)
(* only compared (user id, group id, conversation id, scope tokens) are    *)
(* plain strings, "" being the empty / absent id.  Probabilities and       *)
(* random samples are in percent.  Time is a discrete clock of seconds.    *)
(***************************************************************************)
EXTENDS Integers, Sequences, FiniteSets, TLC

VARIABLES
    entries,              \* Lorebook.entries: the registry, a list of LoreEntry
    entry_storage,        \* cfg.entry_storage: the persisted list of entry dicts
    data,                 \* SessionCache._data: umo -> list of session copies
    jobs,                 \* the scheduler's registered jobs (entry names)
    started,              \* LoreCronScheduler._started
    loader,               \* the thread running Lorebook._load_lorefiles
    now,                  \* time.time()
    allow_same_priority,  \* cfg.allow_same_priority
    max_inject_count,     \* cfg.max_inject_count
    ret,                  \* what the last handler observed and returned
    born                  \* history: umo -> name -> when the stored copy of that
                          \* name was copied into the session (at) and how many
                          \* requests it has been rendered into since (shots)

vars == <<entries, entry_storage, data, jobs, started, loader, now,
          allow_same_priority, max_inject_count, ret, born>>

(***************************************************************************)
(* Bounds of the model.                                                    *)
(***************************************************************************)
MaxTime == 2        \* the clock stops here
MaxInject == 2      \* no session copy is injected more often than this

\* Python's None for the two timestamps of an entry
None == -1

Range(s) == {s[i] : i \in 1..Len(s)}

(***************************************************************************)
(* Regular expressions, restricted to what the entries of the model use:   *)
(* a literal, ".*" (matches everything) and "(" (does not compile).        *)
(***************************************************************************)
MatchAll == <<".", "*">>
BadPattern == <<"(">>

\* k.strip() is empty
IsBlank(k) == \A i \in 1..Len(k) : k[i] = " "

\* re.compile(pattern) succeeds
Compiles(p) == p # BadPattern

\* p.search(text)
Search(p, text) ==
    IF p = MatchAll THEN TRUE
    ELSE \E i \in 0..(Len(text) - Len(p)) : SubSeq(text, i + 1, i + Len(p)) = p

\* the 5 fields of a standard cron line, and a line that is no cron line
CronDaily == <<"0", "8", "*", "*", "*">>
CronNone == <<>>

(***************************************************************************)
(* core/entry.py : LoreEntry                                               *)
(***************************************************************************)

\* _compile_patterns: the patterns of self.keywords that compile
CompilePatterns(keywords) == SelectSeq(keywords, Compiles)

\* LoreEntry.__init__: the entry built from a config dict
LoreEntry(d) ==
    LET kws == SelectSeq(d.keywords, LAMBDA k : ~IsBlank(k)) IN
    [ name |-> d.name,
      enabled |-> d.enabled,
      priority |-> d.priority,
      scope |-> d.scope,
      keywords |-> kws,
      probability |-> d.probability,
      cron |-> d.cron,
      content |-> d.content,
      duration |-> d.duration,
      times |-> d.times,
      _activated_at |-> None,
      _inject_count |-> 0,
      _cron_fired_at |-> None,
      _compiled_patterns |-> CompilePatterns(kws) ]

\* _match_keywords
MatchKeywords(e, text) ==
    \E i \in 1..Len(e._compiled_patterns) : Search(e._compiled_patterns[i], text)

\* the `active` property without the `times > 0` guard
activeMutNoGuard(e, t) ==
    /\ e._activated_at # None
    /\ ~(e.duration > 0 /\ t > e._activated_at + e.duration)
    /\ ~(e._inject_count >= e.times)

\* the `active` property with the exhaustion test off by one
activeMutGt(e, t) ==
    /\ e._activated_at # None
    /\ ~(e.duration > 0 /\ t > e._activated_at + e.duration)
    /\ ~(e.times > 0 /\ e._inject_count > e.times)

\* the `active` property, read at time t
active(e, t) ==
    IF e._activated_at = None THEN FALSE
    ELSE IF e.duration > 0 /\ t > e._activated_at + e.duration THEN FALSE
    ELSE IF e.times > 0 /\ e._inject_count >= e.times THEN FALSE
    ELSE TRUE

\* enabled_cron
enabled_cron(e) ==
    IF ~e.enabled THEN FALSE ELSE Len(e.cron) = 5

\* in_cron_window closing one second early
in_cron_window_mut(e, t) ==
    IF ~enabled_cron(e) THEN FALSE
    ELSE IF e._cron_fired_at = None THEN FALSE
    ELSE IF e.duration <= 0 THEN TRUE
    ELSE t < e._cron_fired_at + e.duration

\* in_cron_window, read at time t
in_cron_window(e, t) ==
    IF ~enabled_cron(e) THEN FALSE
    ELSE IF e._cron_fired_at = None THEN FALSE
    ELSE IF e.duration <= 0 THEN TRUE
    ELSE t <= e._cron_fired_at + e.duration

\* _allow_scope: the loop over self.scope, first match returns True
RECURSIVE ScopeLoop(_, _, _, _, _, _)
ScopeLoop(scope, i, user_id, group_id, session_id, is_admin) ==
    IF i > Len(scope) THEN FALSE
    ELSE IF scope[i] = "admin" /\ is_admin THEN TRUE
    ELSE IF user_id # "" /\ scope[i] = user_id THEN TRUE
    ELSE IF group_id # "" /\ scope[i] = group_id THEN TRUE
    ELSE IF session_id # "" /\ scope[i] = session_id THEN TRUE
    ELSE ScopeLoop(scope, i + 1, user_id, group_id, session_id, is_admin)

allow_scope_mut(e, user_id, group_id, session_id, is_admin) ==
    IF e.scope = <<>> THEN TRUE
    ELSE \E i \in 1..Len(e.scope) :
            \/ e.scope[i] = "admin"
            \/ e.scope[i] \in {user_id, group_id, session_id}

allow_scope(e, user_id, group_id, session_id, is_admin) ==
    IF e.scope = <<>> THEN TRUE
    ELSE ScopeLoop(e.scope, 1, user_id, group_id, session_id, is_admin)

\* _has_text_token
has_text_token(e, text) ==
    IF text = <<>> THEN FALSE
    ELSE IF e._compiled_patterns = <<>> THEN FALSE
    ELSE MatchKeywords(e, text)

\* _satisfy_probability: the verdict and the number of random.random() calls;
\* sample is the value random.random() returns when it is called
satisfy_probability(e, sample) ==
    IF e.probability >= 100 THEN [ok |-> TRUE, draws |-> 0]
    ELSE IF e.probability <= 0 THEN [ok |-> FALSE, draws |-> 0]
    ELSE [ok |-> sample < e.probability, draws |-> 1]

\* check_activate at time t: the verdict and the random draws it made
check_activate_mut(e, text, user_id, group_id, session_id, is_admin, sample, t) ==
    LET p == satisfy_probability(e, sample) IN
    [ ok |-> /\ e.enabled
             /\ allow_scope(e, user_id, group_id, session_id, is_admin)
             /\ (has_text_token(e, text) \/ in_cron_window(e, t))
             /\ p.ok,
      draws |-> p.draws ]

check_activate(e, text, user_id, group_id, session_id, is_admin, sample, t) ==
    IF ~e.enabled THEN [ok |-> FALSE, draws |-> 0]
    ELSE IF ~allow_scope(e, user_id, group_id, session_id, is_admin)
        THEN [ok |-> FALSE, draws |-> 0]
    ELSE IF ~has_text_token(e, text) /\ ~in_cron_window(e, t)
        THEN [ok |-> FALSE, draws |-> 0]
    ELSE satisfy_probability(e, sample)

\* enter_session at time t
enter_session(e, t) == [e EXCEPT !._activated_at = t]

\* on_consume written with `=+ 1`
on_consume_mut(e) == [e EXCEPT !._inject_count = 1]

\* on_consume
on_consume(e) == [e EXCEPT !._inject_count = @ + 1]

\* on_cron_triggered at time t
on_cron_triggered(e, t) == [e EXCEPT !._cron_fired_at = t]

\* on_activated: the schedule eligibility is consumed by a successful activation
on_activated(e) == [e EXCEPT !._cron_fired_at = None]

(***************************************************************************)
(* Python containers                                                       *)
(***************************************************************************)

\* a sort that leaves the list as it is
SortByPriorityMut(s) == s

\* list.sort(key=lambda x: x.priority): a stable insertion sort
RECURSIVE InsertByPriority(_, _)
InsertByPriority(sorted, e) ==
    IF sorted = <<>> THEN <<e>>
    ELSE IF sorted[Len(sorted)].priority <= e.priority THEN Append(sorted, e)
    ELSE Append(InsertByPriority(SubSeq(sorted, 1, Len(sorted) - 1), e),
                sorted[Len(sorted)])

RECURSIVE SortFrom(_, _)
SortFrom(sorted, rest) ==
    IF rest = <<>> THEN sorted
    ELSE SortFrom(InsertByPriority(sorted, Head(rest)), Tail(rest))

SortByPriority(s) == SortFrom(<<>>, s)

\* d[e[k]] = e on an insertion-ordered dict d, kept as the list of its values:
\* an existing key keeps its position and takes the new value
DictPut(d, k, e) ==
    IF \E i \in 1..Len(d) : d[i][k] = e[k]
    THEN [i \in 1..Len(d) |-> IF d[i][k] = e[k] THEN e ELSE d[i]]
    ELSE Append(d, e)

\* list({e[k]: e for e in s}.values()), starting from the dict d
RECURSIVE DictValues(_, _, _)
DictValues(d, k, s) ==
    IF s = <<>> THEN d
    ELSE DictValues(DictPut(d, k, Head(s)), k, Tail(s))

\* dict.pop(key, None) on a dict kept as a function
Pop(d, key) == [x \in (DOMAIN d) \ {key} |-> d[x]]

\* d[key] = value
Put(d, key, value) == [x \in (DOMAIN d) \cup {key} |-> IF x = key THEN value ELSE d[x]]

(***************************************************************************)
(* core/session.py : SessionCache.  Each operation takes the dict _data    *)
(* and yields the new dict together with what it returns.                  *)
(***************************************************************************)

\* a write-back that counts the read as a consumption
WriteBackMut(d, umo, sorted) ==
    [data |-> Put(d, umo, [i \in 1..Len(sorted) |-> on_consume(sorted[i])]),
     out |-> [i \in 1..Len(sorted) |-> on_consume(sorted[i])]]

\* get_sorted_active, write-back: the sorted active entries are stored and returned
WriteBack(d, umo, sorted) == [data |-> Put(d, umo, sorted), out |-> sorted]

\* get_sorted_active, once the active entries are selected
SweepAndSort(d, umo, active_entries) ==
    IF active_entries = <<>> THEN [data |-> Pop(d, umo), out |-> <<>>]
    ELSE WriteBack(d, umo, SortByPriority(active_entries))

\* get_sorted_active(umo) at time t
get_sorted_active(d, umo, t) ==
    IF umo \notin DOMAIN d \/ d[umo] = <<>> THEN [data |-> d, out |-> <<>>]
    ELSE SweepAndSort(d, umo, SelectSeq(d[umo], LAMBDA e : active(e, t)))

\* a merge by name that keeps the old copy next to the new one
MergeByNameBoth(old_entries, new_entries) == old_entries \o new_entries

\* a merge by name in which the old copy wins
MergeByNameMut(old_entries, new_entries) ==
    DictValues(DictValues(<<>>, "name", new_entries), "name", old_entries)

\* step 3 of attach: merge by name, new over old
MergeByName(old_entries, new_entries) ==
    DictValues(DictValues(<<>>, "name", old_entries), "name", new_entries)

\* step 4 of attach with the test of the flag inverted
MergeByPriorityMut(merged, allow) ==
    IF allow THEN DictValues(<<>>, "priority", merged) ELSE merged

\* step 4 of attach: merge by priority unless the configuration allows ties
MergeByPriority(merged, allow) ==
    IF ~allow THEN DictValues(<<>>, "priority", merged) ELSE merged

\* the end of attach: the merged entries are stored and each enters the session
Mount(d, umo, merged, t) ==
    Put(d, umo, [i \in 1..Len(merged) |-> enter_session(merged[i], t)])

\* attach, after step 1 has read the old entries; new_entries are the deep
\* copies of the candidates
AttachTo(got, umo, new_entries, allow, t) ==
    Mount(got.data, umo,
          MergeByPriority(MergeByName(got.out, new_entries), allow), t)

\* attach(umo, entries) at time t
attach(d, umo, es, allow, t) ==
    AttachTo(get_sorted_active(d, umo, t), umo, es, allow, t)

\* remove(umo, names) storing what remains even when nothing remains
remove_mut(d, umo, names) ==
    IF umo \notin DOMAIN d \/ d[umo] = <<>> THEN [data |-> d, out |-> <<>>]
    ELSE LET gone == SelectSeq(d[umo], LAMBDA e : e.name \in Range(names)) IN
         [data |-> Put(d, umo, SelectSeq(d[umo],
                                         LAMBDA e : e.name \notin Range(names))),
          out |-> [i \in 1..Len(gone) |-> gone[i].name]]

\* remove(umo, names)
remove(d, umo, names) ==
    IF umo \notin DOMAIN d \/ d[umo] = <<>> THEN [data |-> d, out |-> <<>>]
    ELSE LET names_set == Range(names)
             remain == SelectSeq(d[umo], LAMBDA e : e.name \notin names_set)
             gone == SelectSeq(d[umo], LAMBDA e : e.name \in names_set)
             removed == [i \in 1..Len(gone) |-> gone[i].name]
         IN  [data |-> IF remain # <<>> THEN Put(d, umo, remain) ELSE Pop(d, umo),
              out |-> removed]

\* clear emptying the whole cache
clear_mut(d, umo) == << >>

\* clear(umo)
clear(d, umo) == Pop(d, umo)

(***************************************************************************)
(* core/template.py : Template                                             *)
(***************************************************************************)
Templates == {"default", "resident", "chance", "user", "group"}

Has(d, k) == k \in DOMAIN d

\* dict.get(k) is truthy, for a key that holds a list of characters
Truthy(d, k) == Has(d, k) /\ d[k] # <<>>

\* dict.get(k) is truthy, for a key that holds a plain string
TruthyStr(d, k) == Has(d, k) /\ d[k] # ""

\* Template.from_data: the template key of a dict ("" when the value is unknown)
TemplateFromData(d) ==
    LET raw == IF TruthyStr(d, "template") THEN d["template"] ELSE "default" IN
    IF raw \in Templates THEN raw ELSE ""

\* Template.defaults
TemplateDefaults(tpl) ==
    CASE tpl = "resident" ->
            [priority |-> 20, keywords |-> <<MatchAll>>, duration |-> 0, times |-> 0]
      [] tpl = "chance" ->
            [priority |-> 1, keywords |-> <<MatchAll>>, duration |-> 180, times |-> 1]
      [] tpl = "user" ->
            [priority |-> 120, keywords |-> <<MatchAll>>, duration |-> 0, times |-> 0]
      [] tpl = "group" ->
            [priority |-> 110, keywords |-> <<MatchAll>>, duration |-> 0, times |-> 0]
      [] OTHER ->
            [priority |-> 50, keywords |-> <<>>, duration |-> 180, times |-> 5]

(***************************************************************************)
(* core/lorebook.py : Lorebook.  es is the list `entries`, st the list     *)
(* cfg.entry_storage.                                                      *)
(***************************************************************************)

\* get_entry(name) finds an entry
HasEntry(es, name) == \E i \in 1..Len(es) : es[i].name = name

\* get_entry(name), for a name that is in the list
get_entry(es, name) ==
    es[CHOOSE i \in 1..Len(es) :
            /\ es[i].name = name
            /\ \A j \in 1..(i - 1) : es[j].name # name]

\* str(index) for the suffixes of the model
Digit(k) == CASE k = 2 -> "2" [] k = 3 -> "3" [] k = 4 -> "4" [] k = 5 -> "5"
              [] k = 6 -> "6" [] k = 7 -> "7" [] k = 8 -> "8" [] OTHER -> "9"

\* f"{name}_{index}"
Suffixed(name, k) == name \o <<"_", Digit(k)>>

\* _resolve_unique_name trying the suffix 2 only
resolve_unique_name_mut(es, name) ==
    IF ~HasEntry(es, name) THEN name ELSE Suffixed(name, 2)

\* _resolve_unique_name: the loop ends at the first free suffix, which is at
\* most Len(es) + 2
resolve_unique_name(es, name) ==
    IF ~HasEntry(es, name) THEN name
    ELSE LET k == CHOOSE i \in 2..(Len(es) + 2) :
                     /\ ~HasEntry(es, Suffixed(name, i))
                     /\ \A j \in 2..(i - 1) : HasEntry(es, Suffixed(name, j))
         IN  Suffixed(name, k)

\* _resolve
resolve(d, defaults, key, fallback) ==
    IF Has(d, key) THEN d[key]
    ELSE IF Has(defaults, key) THEN defaults[key]
    ELSE fallback

\* _resolve_priority without the search for a free priority
resolve_priority_mut(es, d, defaults) ==
    IF Has(d, "priority") THEN d["priority"]
    ELSE (IF Has(defaults, "priority") THEN defaults["priority"] ELSE 0) + 1

\* _resolve_priority: the first free priority above the template's base
resolve_priority(es, d, defaults) ==
    IF Has(d, "priority") THEN d["priority"]
    ELSE LET base == IF Has(defaults, "priority") THEN defaults["priority"] ELSE 0
             used == {es[i].priority : i \in 1..Len(es)}
         IN  CHOOSE p \in (base + 1)..(base + 1 + Len(es)) :
                 /\ p \notin used
                 /\ \A q \in (base + 1)..(p - 1) : q \in used

\* _sort_entries_by_priority, cfg_map[e.name]: some entry's name is the name of
\* no dict of the storage, and the lookup raises KeyError
SaveRaises(es, st) ==
    \E i \in 1..Len(es) : \A j \in 1..Len(st) : st[j].name # es[i].name

\* a save that sorts the entries and leaves the storage in the order it had
sort_entries_by_priority_mut(es, st) ==
    [entries |-> SortByPriority(es), storage |-> st]

\* _sort_entries_by_priority: sorts entries, then lines the storage up by name;
\* when the lookup raises, the entries are sorted and the storage is as it was
sort_entries_by_priority(es, st) ==
    LET sorted == SortByPriority(es)
        cfg_map(name) == st[CHOOSE i \in 1..Len(st) :
                               /\ st[i].name = name
                               /\ \A j \in (i + 1)..Len(st) : st[j].name # name]
    IN  IF SaveRaises(es, st) THEN [entries |-> sorted, storage |-> st]
        ELSE [entries |-> sorted,
              storage |-> [i \in 1..Len(sorted) |-> cfg_map(sorted[i].name)]]

\* _register_entry: one entry per named item of the storage, renamed when taken
RECURSIVE register_entry(_, _, _)
register_entry(es, done, st) ==
    IF st = <<>> THEN [entries |-> es, storage |-> done]
    ELSE LET item == Head(st) IN
         IF ~Truthy(item, "name")
         THEN register_entry(es, Append(done, item), Tail(st))
         ELSE LET unique_name == resolve_unique_name(es, item.name)
                  named == [item EXCEPT !.name = unique_name]
              IN  register_entry(Append(es, LoreEntry(named)),
                                 Append(done, named), Tail(st))

\* add_entry testing `"content" not in data` instead of `not data.get("content")`
AddRejectsMut(d) ==
    \/ ~Truthy(d, "name")
    \/ ~Has(d, "content")
    \/ TemplateFromData(d) = ""

\* add_entry raises ValueError for this dict
AddRejects(d) ==
    \/ ~Truthy(d, "name")
    \/ ~TruthyStr(d, "content")
    \/ TemplateFromData(d) = ""

\* add_entry(data) for a dict it accepts, up to the dict of the new entry
full_data(es, d) ==
    LET template == TemplateFromData(d)
        defaults == TemplateDefaults(template)
    IN  [ name |-> resolve_unique_name(es, d["name"]),
          enabled |-> resolve(d, defaults, "enabled", TRUE),
          priority |-> resolve_priority(es, d, defaults),
          scope |-> resolve(d, defaults, "scope", <<>>),
          keywords |-> resolve(d, defaults, "keywords", <<>>),
          cron |-> resolve(d, defaults, "cron", CronNone),
          duration |-> resolve(d, defaults, "duration", 0),
          times |-> resolve(d, defaults, "times", 0),
          probability |-> resolve(d, defaults, "probability", 100),
          content |-> d["content"],
          template |-> template ]

\* add_entry(data) for a dict it accepts: the new lists and the new entry
add_entry(es, st, d) ==
    LET new_data == full_data(es, d)
        entry == LoreEntry(new_data)
        saved == sort_entries_by_priority(Append(es, entry), Append(st, new_data))
    IN  [entries |-> saved.entries, storage |-> saved.storage, entry |-> entry]

\* remove_entries reporting every requested name as removed
remove_entries_mut(es, st, names) ==
    [entries |-> SelectSeq(es, LAMBDA e : e.name \notin Range(names)),
     storage |-> SelectSeq(st, LAMBDA c : c.name \notin Range(names)),
     success |-> names, failed |-> <<>>]

\* remove_entries(names): the new lists, the removed and the unknown names
remove_entries(es, st, names) ==
    LET n == IF Len(es) < Len(st) THEN Len(es) ELSE Len(st)     \* zip
        keep == {i \in 1..n : es[i].name \notin Range(names)}
        Kept(s) == LET F[i \in 0..n] ==
                           IF i = 0 THEN <<>>
                           ELSE IF i \in keep THEN Append(F[i - 1], s[i])
                           ELSE F[i - 1]
                   IN  F[n]
        Names(I) == LET F[i \in 0..n] ==
                           IF i = 0 THEN <<>>
                           ELSE IF i \in I THEN Append(F[i - 1], es[i].name)
                           ELSE F[i - 1]
                    IN  F[n]
        success == Names((1..n) \ keep)
        failed == SelectSeq(names, LAMBDA x : x \notin Range(success))
        saved == IF success # <<>>
                 THEN sort_entries_by_priority(Kept(es), Kept(st))
                 ELSE [entries |-> Kept(es), storage |-> Kept(st)]
    IN  [entries |-> saved.entries, storage |-> saved.storage,
         success |-> success, failed |-> failed]

\* LoreEntry.set_priority together with the config dict the entry wraps
set_priority(e, priority) == [e EXCEPT !.priority = priority]

\* update_priority(name, priority) for a name that is in the registry
update_priority(es, st, name, priority) ==
    sort_entries_by_priority(
        [i \in 1..Len(es) |->
            IF es[i] = get_entry(es, name) THEN set_priority(es[i], priority)
            ELSE es[i]],
        [i \in 1..Len(st) |->
            IF st[i].name = name THEN set_priority(st[i], priority) ELSE st[i]])

\* load_entry_from_lorefile: add_entry for each record that has a name and a
\* content and whose name is free; a record add_entry rejects is counted failed
RECURSIVE load_entries(_, _, _)
load_entries(es, st, records) ==
    IF records = <<>> THEN [entries |-> es, storage |-> st]
    ELSE LET item == Head(records) IN
         IF ~Truthy(item, "name") \/ ~TruthyStr(item, "content")
         THEN load_entries(es, st, Tail(records))
         ELSE IF HasEntry(es, item["name"])
         THEN load_entries(es, st, Tail(records))
         ELSE IF AddRejects(item)
         THEN load_entries(es, st, Tail(records))
         ELSE LET added == add_entry(es, st, item) IN
              load_entries(added.entries, added.storage, Tail(records))

(***************************************************************************)
(* core/scheduler.py : LoreCronScheduler                                   *)
(***************************************************************************)

\* CronTrigger.from_crontab(cron) succeeds
CronParses(cron) == cron = CronDaily

\* _register_all / _try_register_entry: the job ids after scanning the registry
register_all(es) ==
    {es[i].name : i \in {j \in 1..Len(es) : es[j].cron # <<>> /\ CronParses(es[j].cron)}}

\* _on_trigger notifying every entry of the registry
on_trigger_mut(es, entry_name, t) ==
    [i \in 1..Len(es) |-> on_cron_triggered(es[i], t)]

\* _on_trigger(entry_name) at time t: the registry afterwards
on_trigger(es, entry_name, t) ==
    IF ~HasEntry(es, entry_name) THEN es
    ELSE IF ~get_entry(es, entry_name).enabled THEN es
    ELSE [i \in 1..Len(es) |->
            IF es[i] = get_entry(es, entry_name) THEN on_cron_triggered(es[i], t)
            ELSE es[i]]

(***************************************************************************)
(* main.py : WorldBookPlugin                                               *)
(***************************************************************************)

NamesOf(s) == [i \in 1..Len(s) |-> s[i].name]

\* the indices of the entries whose probability gate draws a random sample
Drawing(es) == {i \in 1..Len(es) : es[i].probability > 0 /\ es[i].probability < 100}

\* _activate_entries, first loop: the indices of the enabled registry entries
\* whose gate passes, samples[i] being the random sample entry i would draw
Candidates(es, text, user_id, group_id, umo, is_admin, samples, t) ==
    {i \in 1..Len(es) :
        /\ es[i].enabled
        /\ check_activate(es[i], text, user_id, group_id, umo, is_admin,
                          IF i \in DOMAIN samples THEN samples[i] ELSE 0, t).ok}

\* the sublist of s at the indices I
Pick(s, I) ==
    LET F[i \in 0..Len(s)] ==
            IF i = 0 THEN <<>>
            ELSE IF i \in I THEN Append(F[i - 1], s[i])
            ELSE F[i - 1]
    IN  F[Len(s)]

\* an attach that stores the registry's own objects instead of deep copies, so
\* that enter_session stamps the registry entries too
ActivateInShared(es2, d, cand, umo, allow, t) ==
    [entries |-> [i \in 1..Len(es2) |->
                     IF i \in cand THEN enter_session(es2[i], t) ELSE es2[i]],
     data |-> attach(d, umo, Pick(es2, cand), allow, t)]

\* _activate_entries, last step: the candidates are attached to the session
ActivateIn(es2, d, cand, umo, allow, t) ==
    [entries |-> es2, data |-> attach(d, umo, Pick(es2, cand), allow, t)]

\* _activate_entries without the on_activated loop
activate_entries_mut(es, d, cand, umo, allow, t) ==
    IF cand = {} THEN [entries |-> es, data |-> d]
    ELSE ActivateIn(es, d, cand, umo, allow, t)

\* _activate_entries: the registry and the session cache afterwards
activate_entries(es, d, cand, umo, allow, t) ==
    IF cand = {} THEN [entries |-> es, data |-> d]
    ELSE ActivateIn([i \in 1..Len(es) |->
                        IF i \in cand THEN on_activated(es[i]) ELSE es[i]],
                    d, cand, umo, allow, t)

\* a cut that keeps every entry
CutNone(sorted, max_count) == sorted

\* _prepare_entries_for_injection, the cut at max_inject_count
Cut(sorted, max_count) ==
    IF max_count > 0 /\ Len(sorted) > max_count
    THEN SubSeq(sorted, 1, max_count)
    ELSE sorted

\* _prepare_entries_for_injection: sorted by priority, cut at max_inject_count
prepare_entries_for_injection(s, max_count) == Cut(SortByPriority(s), max_count)

\* _render_entries counting every active entry, rendered or cut
render_entries_mut(got, umo, chosen) ==
    [data |-> Put(got.data, umo,
                  [i \in 1..Len(got.out) |->
                      [got.out[i] EXCEPT !._inject_count = @ + 1]]),
     out |-> NamesOf(chosen)]

\* _render_entries: each chosen entry is rendered and consumed.  got.out is
\* sorted already, so chosen is its prefix and the objects rendered are the
\* first Len(chosen) of the stored list
render_entries(got, umo, chosen) ==
    [data |-> Put(got.data, umo,
                  [i \in 1..Len(got.out) |->
                      IF i <= Len(chosen)
                      THEN [got.out[i] EXCEPT !._inject_count = @ + 1]
                      ELSE got.out[i]]),
     out |-> NamesOf(chosen)]

\* _inject_entries, once the session has been read
InjectFrom(got, umo, max_count) ==
    IF got.out = <<>> THEN [data |-> got.data, out |-> <<>>]
    ELSE render_entries(got, umo, prepare_entries_for_injection(got.out, max_count))

\* _inject_entries at time t: the session cache afterwards and the names
\* rendered into the request, in order
inject_entries(d, umo, max_count, t) ==
    InjectFrom(get_sorted_active(d, umo, t), umo, max_count)

(***************************************************************************)
(* The configuration and the inputs of the model                           *)
(***************************************************************************)
NameA == <<"A">>
NameB == <<"B">>
NameC == <<"C">>

\* the entries the configuration holds when the plugin starts
EntryA ==
    [ name |-> NameA, enabled |-> TRUE, priority |-> 1, scope |-> <<>>,
      keywords |-> << <<"a">> >>, probability |-> 100, cron |-> CronNone,
      content |-> "lore A", duration |-> 0, times |-> 0, template |-> "default" ]

EntryB ==
    [ name |-> NameB, enabled |-> TRUE, priority |-> 2, scope |-> <<>>,
      keywords |-> << <<"b">> >>, probability |-> 100, cron |-> CronDaily,
      content |-> "lore B", duration |-> 1, times |-> 2, template |-> "default" ]

EntryC ==
    [ name |-> NameC, enabled |-> TRUE, priority |-> 2, scope |-> <<"s1">>,
      keywords |-> << <<"a">>, BadPattern >>, probability |-> 50, cron |-> CronNone,
      content |-> "lore C", duration |-> 0, times |-> 1, template |-> "default" ]

InitStorage == <<EntryA, EntryB, EntryC>>

Umos == {"s1"}
Texts == { <<"a">>, <<"b">>, <<"a", "b">> }
Samples == {25, 75}
Priorities == {1, 2}
NameLists == { <<NameA>>, <<NameC, NameB>> }
NameZ == <<"Z">>

(***************************************************************************)
(* The state machine                                                       *)
(***************************************************************************)
\* the thread of _load_lorefiles has nothing left to load
LoaderDone == [pc |-> "done", records |-> <<>>]

StoredNames(d, c) == {d[c][i].name : i \in 1..Len(d[c])}

\* the list stored for conversation umo (empty when the key is absent)
StoredFor(d, umo) == IF umo \in DOMAIN d THEN d[umo] ELSE <<>>

\* the history of the copies stored in d after a step at time t: `fresh` are
\* the names copied into conversation umo by the step, `shot` the names it
\* rendered into the request.  For each copy, `at` is the time it was copied
\* into the conversation and `shots` the number of requests it has been
\* rendered into since.
Born(d, umo, fresh, shot, t) ==
    [c \in DOMAIN d |->
        [n \in StoredNames(d, c) |->
            [at |-> IF c = umo /\ n \in fresh THEN t ELSE born[c][n].at,
             shots |-> (IF c = umo /\ n \in fresh THEN 0 ELSE born[c][n].shots)
                       + (IF c = umo /\ n \in shot THEN 1 ELSE 0)]]]

Init ==
    LET reg == register_entry(<<>>, <<>>, InitStorage)
        saved == sort_entries_by_priority(reg.entries, reg.storage)
    IN  /\ entries = saved.entries
        /\ entry_storage = saved.storage
        /\ data = << >>
        /\ born = << >>
        /\ jobs = register_all(saved.entries)
        /\ started = TRUE
        /\ loader = LoaderDone
        /\ now = 0
        /\ allow_same_priority \in BOOLEAN
        /\ max_inject_count \in {0, 1}
        /\ ret = [op |-> "init"]

\* time passes
Tick ==
    /\ now < MaxTime
    /\ now' = now + 1
    /\ ret' = [op |-> "tick"]
    /\ UNCHANGED <<entries, entry_storage, data, jobs, started, loader,
                   allow_same_priority, max_inject_count, born>>

\* on_llm_request, the effect: msg is the message (text and sender), names are
\* the candidates, act the registry and the session cache after the activation
\* phase, inj the result of the injection phase
LlmDone(umo, msg, names, act, inj) ==
    /\ \A c \in DOMAIN inj.data : \A i \in 1..Len(inj.data[c]) :
           inj.data[c][i]._inject_count <= MaxInject
    /\ entries' = act.entries
    /\ data' = inj.data
    /\ born' = Born(inj.data, umo, Range(names), Range(inj.out), now)
    /\ ret' = [op |-> "llm", umo |-> umo, text |-> msg.text,
               user_id |-> msg.user_id, names |-> names,
               had |-> StoredFor(data, umo), mid |-> StoredFor(act.data, umo),
               out |-> inj.out]
    /\ UNCHANGED <<entry_storage, jobs, started, loader,
                   now, allow_same_priority, max_inject_count>>

\* on_llm_request, the injection phase after the activation phase
LlmInject(umo, msg, cand, act) ==
    LlmDone(umo, msg, NamesOf(Pick(entries, cand)), act,
            inject_entries(act.data, umo, max_inject_count, now))

\* on_llm_request, the activation phase for the candidates
LlmActivate(umo, msg, cand) ==
    LlmInject(umo, msg, cand,
              activate_entries(entries, data, cand, umo, allow_same_priority, now))

\* on_llm_request: a message of conversation umo reaches the model
OnLlmRequest(text, user_id, group_id, umo, is_admin, samples) ==
    /\ text # <<>>
    /\ LlmActivate(umo, [text |-> text, user_id |-> user_id],
                   Candidates(entries, text, user_id, group_id, umo,
                              is_admin, samples, now))

\* the status command: reads the conversation's active entries
StatusRead(umo, got) ==
    /\ data' = got.data
    /\ born' = Born(got.data, umo, {}, {}, now)
    /\ ret' = [op |-> "status", umo |-> umo, names |-> <<>>,
               had |-> StoredFor(data, umo), out |-> got.out]

OnCommand(umo) ==
    /\ StatusRead(umo, get_sorted_active(data, umo, now))
    /\ UNCHANGED <<entries, entry_storage, jobs, started, loader, now,
                   allow_same_priority, max_inject_count>>

\* the clear command: all entries of the conversation, or the named ones
StopInject(umo, names) ==
    /\ IF names = <<>>
       THEN /\ data' = clear(data, umo)
            /\ born' = Born(clear(data, umo), umo, {}, {}, now)
            /\ ret' = [op |-> "clear", umo |-> umo, names |-> names, out |-> <<>>]
       ELSE LET r == remove(data, umo, names) IN
            /\ data' = r.data
            /\ born' = Born(r.data, umo, {}, {}, now)
            /\ ret' = [op |-> "remove", umo |-> umo, names |-> names, out |-> r.out]
    /\ UNCHANGED <<entries, entry_storage, jobs, started, loader, now,
                   allow_same_priority, max_inject_count>>

\* the set-priority command
SetPriority(name, priority) ==
    /\ IF HasEntry(entries, name)
       THEN LET saved == update_priority(entries, entry_storage, name, priority) IN
            /\ entries' = saved.entries
            /\ entry_storage' = saved.storage
       ELSE UNCHANGED <<entries, entry_storage>>
    /\ ret' = [op |-> "set_priority", names |-> <<name>>,
               out |-> HasEntry(entries, name)]
    /\ UNCHANGED <<data, jobs, started, loader,
                   now, allow_same_priority, max_inject_count, born>>

\* a cron job fires
OnTrigger(entry_name) ==
    /\ entry_name \in jobs
    /\ entries' = on_trigger(entries, entry_name, now)
    /\ ret' = [op |-> "cron", names |-> <<entry_name>>]
    /\ UNCHANGED <<entry_storage, data, jobs, started, loader, now,
                   allow_same_priority, max_inject_count, born>>

Next ==
    \/ Tick
    \/ \E text \in Texts, umo \in Umos, samples \in [Drawing(entries) -> Samples] :
            OnLlmRequest(text, "u1", "", umo, FALSE, samples)
    \/ \E umo \in Umos : OnCommand(umo)
    \/ \E umo \in Umos, names \in NameLists \cup {<<>>} : StopInject(umo, names)
    \/ \E name \in {NameA, NameZ}, p \in Priorities : SetPriority(name, p)
    \/ \E name \in jobs : OnTrigger(name)

Spec == Init /\ [][Next]_vars

(***************************************************************************)
(* The activation gate on its own: the registry holds one entry, of any    *)
(* configuration in GateConfigs, and check_activate is applied to it for   *)
(* every caller and text.                                                  *)
(***************************************************************************)
GateConfigs ==
    [ name : {NameA}, enabled : BOOLEAN, priority : {1},
      scope : { <<>>, <<"admin">>, <<"u1">>, <<"g1", "s1">> },
      keywords : { << <<"a">> >>, << BadPattern >>, << <<" ">>, <<"b">> >> },
      probability : {0, 50, 100}, cron : {CronNone, CronDaily},
      content : {"lore"}, duration : {0, 1}, times : {0}, template : {"default"} ]

GateTexts == { <<>>, <<"a">>, <<"b">> }
\* callers as <<user_id, group_id, session_id>>; "" is an id the platform
\* does not supply
GateCallers ==
    { <<"u1", "", "s2">>, <<"admin", "", "s2">>, <<"", "g1", "s2">>, <<"", "", "s1">> }

InitGate ==
    /\ \E d \in GateConfigs :
          /\ entries = <<LoreEntry(d)>>
          /\ entry_storage = <<d>>
          /\ jobs = register_all(<<LoreEntry(d)>>)
    /\ started = TRUE
    /\ loader = LoaderDone
    /\ data = << >>
    /\ born = << >>
    /\ now = 0
    /\ allow_same_priority = FALSE
    /\ max_inject_count = 0
    /\ ret = [op |-> "init"]

\* check_activate applied to registry entry i
GateCheck(i, text, user_id, group_id, session_id, is_admin, sample) ==
    /\ LET r == check_activate(entries[i], text, user_id, group_id, session_id,
                               is_admin, sample, now)
       IN  ret' = [op |-> "check", index |-> i, text |-> text, user_id |-> user_id,
                   group_id |-> group_id, session_id |-> session_id,
                   is_admin |-> is_admin, sample |-> sample,
                   ok |-> r.ok, draws |-> r.draws]
    /\ UNCHANGED <<entries, entry_storage, data, jobs, started, loader, now,
                   allow_same_priority, max_inject_count, born>>

NextGate ==
    \/ Tick
    \/ \E name \in jobs : OnTrigger(name)
    \/ \E i \in 1..Len(entries), text \in GateTexts, c \in GateCallers,
          is_admin \in BOOLEAN :
         \E sample \in IF i \in Drawing(entries) THEN Samples ELSE {0} :
            GateCheck(i, text, c[1], c[2], c[3], is_admin, sample)

SpecGate == InitGate /\ [][NextGate]_vars

(***************************************************************************)
(* Claims about the activation gate, checked under SpecGate.  The gates    *)
(* are stated here from the entry's configuration and the caller, not by   *)
(* the operators of the gate.                                              *)
(***************************************************************************)
Checked == entries[ret.index]

\* the caller holds one of the scope tokens, or the scope is empty
ScopeAllowsCaller ==
    \/ Checked.scope = <<>>
    \/ \E tok \in Range(Checked.scope) :
          \/ tok = "admin" /\ ret.is_admin
          \/ ret.user_id # "" /\ tok = ret.user_id
          \/ ret.group_id # "" /\ tok = ret.group_id
          \/ ret.session_id # "" /\ tok = ret.session_id

\* the text matches one of the entry's keyword patterns
TextMatchesKeyword ==
    \E k \in Range(Checked.keywords) : Compiles(k) /\ ret.text # <<>> /\ Search(k, ret.text)

\* the entry has pending schedule eligibility
ScheduleEligible ==
    /\ Checked.enabled
    /\ Len(Checked.cron) = 5
    /\ Checked._cron_fired_at # None
    /\ (Checked.duration > 0 => now <= Checked._cron_fired_at + Checked.duration)

\* the probability gate passes
ProbabilityPasses ==
    \/ Checked.probability = 100
    \/ Checked.probability # 0 /\ ret.sample < Checked.probability

EarlierGatesPass ==
    Checked.enabled /\ ScopeAllowsCaller /\ (TextMatchesKeyword \/ ScheduleEligible)

\* C1: check_activate returns true exactly when the entry is enabled, the
\* scope gate allows the caller, the text matches a keyword pattern or the
\* entry has pending schedule eligibility, and the probability gate passes
\* (always for probability 1.0, never for 0.0).
C1_GateIffAllFour ==
    ret.op = "check" => (ret.ok <=> (EarlierGatesPass /\ ProbabilityPasses))

\* a verdict of true reached through the schedule gate and a random draw, for a
\* caller a non-empty scope allows and a text that matches no keyword
C1_Witness ==
    /\ ret.op = "check"
    /\ ret.ok
    /\ Checked.scope # <<>>
    /\ ~TextMatchesKeyword
    /\ ret.draws = 1

\* C2: for an entry whose scope is exactly ["admin"], check_activate returns
\* false for every sender who is not an admin, whatever the user id, group id
\* and session id are.
C2_AdminScopeExcludesNonAdmin ==
    (ret.op = "check" /\ Checked.scope = <<"admin">> /\ ~ret.is_admin) => ~ret.ok

\* C3: when the enabled, scope or keyword/schedule gate fails, check_activate
\* has made no random draw.
C3_NoDrawBeforeLastGate ==
    (ret.op = "check" /\ ~EarlierGatesPass) => ret.draws = 0

\* an entry that would draw (probability strictly between 0 and 1), stopped by
\* its scope gate with a matching text
C3_Witness ==
    /\ ret.op = "check"
    /\ Checked.enabled
    /\ Checked.probability = 50
    /\ TextMatchesKeyword
    /\ ~ScopeAllowsCaller
    /\ ret.draws = 0

(***************************************************************************)
(* Claims about the session cache and the injection, checked under Spec.   *)
(* ret describes the last operation: `had` is the list the conversation    *)
(* held before it, `mid` the list right after attach, `out` what it        *)
(* returned or rendered.                                                   *)
(***************************************************************************)
Conversations == DOMAIN data

\* each priority occurs at most once in every conversation
NoSamePriority ==
    \A c \in Conversations : \A i, j \in 1..Len(data[c]) :
        i # j => data[c][i].priority # data[c][j].priority

\* C4 as stated: in every reachable state of the session cache no conversation
\* holds two entries with the same priority.
C4_OnePerPriority == NoSamePriority

\* C4 as the code has it: when allow_same_priority is not set, no conversation
\* ever holds two entries with the same priority.
C4_OnePerPriorityUnlessAllowed == ~allow_same_priority => NoSamePriority

\* a message has just attached a second entry next to one the conversation held,
\* with the flag not set
C4_Witness ==
    /\ ~allow_same_priority
    /\ ret.op = "llm"
    /\ ret.had # <<>>
    /\ \E n \in Range(ret.names) : n \notin Range(NamesOf(ret.had))
    /\ Len(data[ret.umo]) >= 2

\* the priorities of the candidates of the last message
CandidatePriorities == {get_entry(entries, n).priority : n \in Range(ret.names)}

\* C5: when attach adds candidates whose priority equals that of an entry
\* already active in the conversation (or of each other), exactly one entry of
\* that priority remains and it is one of the newly activated ones.  Checked
\* with allow_same_priority not set, on the list right after attach.
C5_NewWins ==
    (ret.op = "llm" /\ ~allow_same_priority) =>
        \A p \in CandidatePriorities :
            \E i \in 1..Len(ret.mid) :
                /\ ret.mid[i].priority = p
                /\ ret.mid[i].name \in Range(ret.names)
                /\ \A j \in 1..Len(ret.mid) : j # i => ret.mid[j].priority # p

\* available at the time of the call, from the fields of the copy
Available(e) ==
    /\ e._activated_at # None
    /\ (e.duration > 0 => now <= e._activated_at + e.duration)
    /\ (e.times > 0 => e._inject_count < e.times)

Ascending(s) == \A i, j \in 1..Len(s) : i < j => s[i].priority <= s[j].priority

\* C6: get_sorted_active returns exactly the stored entries that are available
\* at the time of the call, in ascending priority order.
C6_SortedAvailable ==
    ret.op = "status" =>
        /\ Ascending(ret.out)
        /\ Range(ret.out) = {e \in Range(ret.had) : Available(e)}
        /\ Len(ret.out) = Cardinality({i \in 1..Len(ret.had) : Available(ret.had[i])})

\* a read that returned two entries and left a third, unavailable one out
C6_Witness ==
    /\ ret.op = "status"
    /\ Len(ret.out) >= 2
    /\ Len(ret.had) > Len(ret.out)

\* C7: a session copy with duration d > 0 that was copied into the conversation
\* at time t is in no get_sorted_active result obtained later than t + d.
C7_ExpiredExcluded ==
    ret.op = "status" =>
        \A i \in 1..Len(ret.out) :
            ~(/\ ret.out[i].duration > 0
              /\ now > born[ret.umo][ret.out[i].name].at + ret.out[i].duration)

\* on_consume applied k times
RECURSIVE Consumed(_, _)
Consumed(e, k) == IF k = 0 THEN e ELSE on_consume(Consumed(e, k - 1))

\* C8: an activated entry with times = n > 0 is available after each of its
\* first n - 1 on_consume calls and unavailable from the n-th on; an entry
\* with times = 0 stays available.  Checked for every registry entry entering
\* a session now, and for every stored copy that has not expired.
C8_Exhaustion ==
    /\ \A i \in 1..Len(entries) : \A k \in 0..(MaxInject + 1) :
          active(Consumed(enter_session(entries[i], now), k), now)
              <=> (entries[i].times = 0 \/ k < entries[i].times)
    /\ \A c \in Conversations : \A i \in 1..Len(data[c]) :
          (data[c][i].duration > 0 => now <= data[c][i]._activated_at + data[c][i].duration)
              => (active(data[c][i], now)
                    <=> (data[c][i].times = 0 \/ data[c][i]._inject_count < data[c][i].times))

\* a stored copy with times = 2 that has been rendered twice and is no longer
\* available, though it has not expired
C8_Witness ==
    \E c \in Conversations : \E i \in 1..Len(data[c]) :
        /\ data[c][i].times = 2
        /\ data[c][i]._inject_count = 2
        /\ now <= data[c][i]._activated_at + data[c][i].duration
        /\ ~active(data[c][i], now)

\* C9: an entry with times = n > 0 is rendered into at most n requests between
\* two consecutive activations of that entry in the conversation.
C9_AtMostTimes ==
    \A c \in Conversations : \A i \in 1..Len(data[c]) :
        data[c][i].times > 0 => born[c][data[c][i].name].shots <= data[c][i].times

\* the last message rendered an entry with times = 2 for the second time since
\* its activation by an earlier message
C9_Witness ==
    /\ ret.op = "llm"
    /\ \E i \in 1..Len(data[ret.umo]) :
          /\ data[ret.umo][i].name \in Range(ret.out)
          /\ data[ret.umo][i].name \notin Range(ret.names)
          /\ data[ret.umo][i].times = 2
          /\ born[ret.umo][data[ret.umo][i].name].shots = 2

\* the copy of name n is activated by the step into conversation c
ActivatedByStep(c, n) == ret'.op = "llm" /\ ret'.umo = c /\ n \in Range(ret'.names)

C10_Step ==
    /\ ret'.op = "llm" =>
          \A i \in 1..Len(ret'.mid) :
              ret'.mid[i].name \in Range(ret'.names) => ret'.mid[i]._inject_count = 0
    /\ \A c \in Conversations \cap DOMAIN data' :
          \A i \in 1..Len(data[c]), j \in 1..Len(data'[c]) :
              (data[c][i].name = data'[c][j].name /\ ~ActivatedByStep(c, data[c][i].name))
                  => data'[c][j]._inject_count >= data[c][i]._inject_count

\* C10: the inject count of a session copy never decreases while the copy is
\* not activated again, and it is 0 right after every activation or
\* re-activation of the entry in the session cache.
C10_CountOnlyResetByActivation == [][C10_Step]_vars

\* a re-activation: the conversation held a copy that had been rendered, the
\* message activated the entry again and attach left a copy with count 0, next
\* to a copy that was not activated and kept its count
C10_Witness ==
    /\ ret.op = "llm"
    /\ \E i \in 1..Len(ret.had), j \in 1..Len(ret.mid) :
          /\ ret.had[i].name = ret.mid[j].name
          /\ ret.had[i].name \in Range(ret.names)
          /\ ret.had[i]._inject_count > 0
          /\ ret.mid[j]._inject_count = 0
    /\ \E i \in 1..Len(ret.had), j \in 1..Len(ret.mid) :
          /\ ret.had[i].name = ret.mid[j].name
          /\ ret.had[i].name \notin Range(ret.names)
          /\ ret.had[i]._inject_count > 0
          /\ ret.mid[j]._inject_count = ret.had[i]._inject_count

\* the inject count of the copy named n in the list s (None when s has none)
CountIn(s, n) ==
    IF \E i \in 1..Len(s) : s[i].name = n
    THEN (CHOOSE e \in Range(s) : e.name = n)._inject_count
    ELSE None

\* what the conversation of the last message holds now
StoredNow == StoredFor(data, ret.umo)

\* every rendering adds exactly 1 to the count the copy had when the injection
\* phase read it
RenderedCountsOne ==
    \A n \in Range(ret.out) : CountIn(StoredNow, n) = CountIn(ret.mid, n) + 1

\* C11 as stated: every rendering of an active entry into the request adds
\* exactly 1 to its inject count, and an entry of the conversation that is not
\* rendered into the request has the inject count it had before the message.
C11_RenderCountsOne ==
    ret.op = "llm" =>
        /\ RenderedCountsOne
        /\ \A n \in Range(NamesOf(StoredNow)) \ Range(ret.out) :
              CountIn(ret.had, n) # None => CountIn(StoredNow, n) = CountIn(ret.had, n)

\* C11 as the code has it: every rendering adds exactly 1, and an entry that is
\* not rendered keeps its inject count unless the message activated it again,
\* in which case its count is 0.
C11_RenderCountsOneUnlessReactivated ==
    ret.op = "llm" =>
        /\ RenderedCountsOne
        /\ \A n \in Range(NamesOf(StoredNow)) \ Range(ret.out) :
              /\ CountIn(StoredNow, n) = CountIn(ret.mid, n)
              /\ n \in Range(ret.names) => CountIn(StoredNow, n) = 0
              /\ (n \notin Range(ret.names) /\ CountIn(ret.had, n) # None)
                    => CountIn(StoredNow, n) = CountIn(ret.had, n)

\* a request that rendered one entry and left another one, rendered before and
\* not activated by this message, with the count it had
C11_Witness ==
    /\ ret.op = "llm"
    /\ ret.out # <<>>
    /\ \E n \in Range(NamesOf(StoredNow)) \ (Range(ret.out) \cup Range(ret.names)) :
          /\ CountIn(ret.had, n) > 0
          /\ CountIn(StoredNow, n) = CountIn(ret.had, n)

\* the text matches one of the keyword patterns of e that compile
KeywordHit(e, text) ==
    \E k \in Range(e.keywords) : Compiles(k) /\ Search(k, text)

\* the step is a message that made registry entry i a candidate
MadeCandidate(i) == ret'.op = "llm" /\ entries[i].name \in Range(ret'.names)

C13_Step ==
    \A i \in 1..Len(entries) :
        MadeCandidate(i) =>
            /\ entries'[i].name = entries[i].name
            /\ entries'[i]._cron_fired_at = None
            /\ (~KeywordHit(entries[i], ret'.text) => entries[i]._cron_fired_at # None)

SenderInScope(e, user_id, umo) ==
    e.scope = <<>> \/ user_id \in Range(e.scope) \/ umo \in Range(e.scope)

\* registry entry i is enabled, always passes the probability gate and holds
\* an eligibility no activation has consumed
FiredAndSure(i) ==
    /\ entries[i].enabled
    /\ entries[i].probability = 100
    /\ entries[i]._cron_fired_at # None

\* C14 as stated: after the schedule of an enabled entry fires, the next
\* evaluated message from a caller the scope allows activates the entry (given
\* probability 1.0) whatever its text.
C14_FiredThenActivated ==
    [][ \A i \in 1..Len(entries) :
          (/\ ret'.op = "llm"
           /\ FiredAndSure(i)
           /\ SenderInScope(entries[i], ret'.user_id, ret'.umo))
              => entries[i].name \in Range(ret'.names) ]_vars

\* C14 as the code has it: the firing opens a window.  The next message from an
\* allowed caller activates the entry if the entry's duration is 0 or the
\* message is evaluated no later than duration seconds after the firing.
C14_FiredThenActivatedInWindow ==
    [][ \A i \in 1..Len(entries) :
          (/\ ret'.op = "llm"
           /\ FiredAndSure(i)
           /\ SenderInScope(entries[i], ret'.user_id, ret'.umo)
           /\ (entries[i].duration > 0
                  => now <= entries[i]._cron_fired_at + entries[i].duration))
              => entries[i].name \in Range(ret'.names) ]_vars

\* a message that matches no keyword of a scheduled entry has activated it and
\* the request carries the entry
C14_Witness ==
    /\ ret.op = "llm"
    /\ \E i \in 1..Len(entries) :
          /\ entries[i].name \in Range(ret.names)
          /\ entries[i].name \in Range(ret.out)
          /\ entries[i].cron # CronNone
          /\ ~KeywordHit(entries[i], ret.text)

C16_ReadIdempotent ==
    \A c \in Umos :
        get_sorted_active(get_sorted_active(data, c, now).data, c, now)
            = get_sorted_active(data, c, now)

\* a read that swept an unavailable entry and returned the rest, after which
\* another read returns the same list
C16_Witness ==
    /\ ret.op = "status"
    /\ ret.out # <<>>
    /\ Len(ret.had) > Len(ret.out)
    /\ get_sorted_active(data, ret.umo, now).out = ret.out

(***************************************************************************)
(* Two conversations and two senders over a registry of two entries, for   *)
(* the claims about what one conversation's operations leave alone.        *)
(***************************************************************************)
UmosTwo == {"s1", "s2"}
UsersTwo == {"u1", "u2"}
TextsTwo == { <<"a">>, <<"b">> }
StorageTwo == <<EntryA, EntryB>>

InitTwo ==
    LET reg == register_entry(<<>>, <<>>, StorageTwo)
        saved == sort_entries_by_priority(reg.entries, reg.storage)
    IN  /\ entries = saved.entries
        /\ entry_storage = saved.storage
        /\ data = << >>
        /\ born = << >>
        /\ jobs = register_all(saved.entries)
        /\ started = TRUE
        /\ loader = LoaderDone
        /\ now = 0
        /\ allow_same_priority = FALSE
        /\ max_inject_count = 0
        /\ ret = [op |-> "init"]

NextTwo ==
    \/ Tick
    \/ \E text \in TextsTwo, user_id \in UsersTwo, umo \in UmosTwo :
            OnLlmRequest(text, user_id, "", umo, FALSE, << >>)
    \/ \E umo \in UmosTwo : OnCommand(umo)
    \/ \E umo \in UmosTwo, names \in {<<>>, <<NameA>>} : StopInject(umo, names)
    \/ \E name \in jobs : OnTrigger(name)

SpecTwo == InitTwo /\ [][NextTwo]_vars

\* the step is an operation of the session cache on one conversation
SessionOp == ret'.op \in {"llm", "status", "clear", "remove"}

\* the step leaves every other conversation as it was
OthersUntouched ==
    \A c \in UmosTwo \ {ret'.umo} :
        /\ (c \in DOMAIN data') = (c \in DOMAIN data)
        /\ StoredFor(data', c) = StoredFor(data, c)

Permanent(e) == e.duration = 0 /\ e.times = 0

\* the step removes or clears the entry named n in conversation c
Dropped(c, n) ==
    /\ ret'.op \in {"clear", "remove"}
    /\ ret'.umo = c
    /\ (ret'.names = <<>> \/ n \in Range(ret'.names))

\* the step activates, in conversation c, another entry with the priority p
Displaced(c, n, p) ==
    /\ ret'.op = "llm"
    /\ ret'.umo = c
    /\ \E i \in 1..Len(entries) :
          /\ entries[i].name \in Range(ret'.names)
          /\ entries[i].name # n
          /\ entries[i].priority = p

C17_Step ==
    /\ \A i \in 1..Len(entries) :
          (/\ ret'.op = "llm"
           /\ entries[i].enabled
           /\ entries[i].scope = <<>>
           /\ entries[i].probability = 100
           /\ Permanent(entries[i])
           /\ KeywordHit(entries[i], ret'.text))
              => /\ entries[i].name \in Range(ret'.names)
                 /\ CountIn(ret'.mid, entries[i].name) = 0
                 /\ CountIn(StoredFor(data', ret'.umo), entries[i].name) # None
    /\ \A c \in DOMAIN data : \A i \in 1..Len(data[c]) :
          (/\ Permanent(data[c][i])
           /\ ~Dropped(c, data[c][i].name)
           /\ ~Displaced(c, data[c][i].name, data[c][i].priority))
              => /\ c \in DOMAIN data'
                 /\ \E j \in 1..Len(data'[c]) :
                       /\ data'[c][j].name = data[c][i].name
                       /\ Permanent(data'[c][j])
                 /\ (ret'.op = "status" /\ ret'.umo = c)
                       => data[c][i] \in Range(ret'.out)

\* C17: an enabled entry with empty scope, probability 1.0, duration 0 and
\* times 0 is activated by a keyword-matching message from any user, and from
\* then on it stays in the conversation and every read returns it, whatever
\* reads, injections and time follow, until it is removed, cleared or displaced
\* by the activation of another entry of its priority.
C17_PermanentEntryStays == [][C17_Step]_vars

\* at the last moment of the clock, a read returns a permanent entry that was
\* activated at time 0 by the second user and has been rendered at least twice
C17_Witness ==
    /\ ret.op = "status"
    /\ now = MaxTime
    /\ \E i \in 1..Len(ret.out) :
          /\ Permanent(ret.out[i])
          /\ ret.out[i]._inject_count >= 2
          /\ born[ret.umo][ret.out[i].name].at = 0

(***************************************************************************)
(* The registry under its commands: adding, deleting, loading a lorefile,  *)
(* enabling and disabling an entry for a conversation                      *)
(***************************************************************************)
MaxEntries == 3     \* the registry holds at most this many entries

\* LoreEntry.add_scope: appends the token unless the scope holds it
add_scope(e, scope) ==
    IF scope \in Range(e.scope) THEN e
    ELSE [e EXCEPT !.scope = Append(@, scope)]

\* LoreEntry.remove_scope: drops the token; a scope emptied by this is
\* restored to ["admin"]
remove_scope(e, scope) ==
    IF scope \notin Range(e.scope) THEN e
    ELSE LET rest == SelectSeq(e.scope, LAMBDA s : s # scope) IN
         [e EXCEPT !.scope = IF rest = <<>> THEN <<"admin">> ELSE rest]

\* a scope mutator (add_scope when `adding`, else remove_scope) applied to the
\* entry `name` and to the config dict it wraps, saved when it changed something
ScopeUpdate(es, st, name, scope, adding) ==
    LET Mutate(e) == IF adding THEN add_scope(e, scope) ELSE remove_scope(e, scope)
        found == get_entry(es, name)
        es2 == [i \in 1..Len(es) |->
                   IF es[i] = found THEN Mutate(es[i]) ELSE es[i]]
        st2 == [i \in 1..Len(st) |->
                   IF st[i].name = name THEN Mutate(st[i]) ELSE st[i]]
    IN  IF Mutate(found) # found THEN sort_entries_by_priority(es2, st2)
        ELSE [entries |-> es, storage |-> st]

\* add_scope_to_entry(name, scope) for a name that is in the registry
add_scope_to_entry(es, st, name, scope) ==
    ScopeUpdate(es, st, name, scope, TRUE)

\* remove_scope_from_entry that never reaches the entry
remove_scope_from_entry_mut(es, st, name, scope) ==
    [entries |-> es, storage |-> st]

\* remove_scope_from_entry(name, scope) for a name that is in the registry
remove_scope_from_entry(es, st, name, scope) ==
    ScopeUpdate(es, st, name, scope, FALSE)

\* the loop of enable_entry / disable_entry over the names of the command:
\* the registry afterwards, the names found and the names not found
RECURSIVE ScopeLoopOver(_, _, _, _, _, _, _)
ScopeLoopOver(es, st, names, umo, ok, fail, adding) ==
    IF names = <<>>
    THEN [entries |-> es, storage |-> st, ok |-> ok, fail |-> fail]
    ELSE IF ~HasEntry(es, Head(names))
    THEN ScopeLoopOver(es, st, Tail(names), umo, ok, Append(fail, Head(names)),
                       adding)
    ELSE LET saved == IF adding
                      THEN add_scope_to_entry(es, st, Head(names), umo)
                      ELSE remove_scope_from_entry(es, st, Head(names), umo)
         IN  ScopeLoopOver(saved.entries, saved.storage, Tail(names), umo,
                           Append(ok, Head(names)), fail, adding)

\* names of the model's registry commands
NameA2 == Suffixed(NameA, 2)
NameD == <<"D">>
NameLong == <<"l", "o", "n", "g", "e", "r", "-", "t", "h", "a", "n">>

\* the configuration at start: two items called A, one of them with blank
\* keywords, and an item without a name
BookStorage ==
    << EntryA,
       [EntryB EXCEPT !.name = <<>>],
       [EntryA EXCEPT !.keywords = << <<" ">> >>, !.priority = 3] >>

\* records of the lorefiles of the model
RecordB ==
    [ name |-> NameB, content |-> "lore B", template |-> "resident",
      scope |-> <<"s1">> ]
RecordD ==
    [ name |-> NameD, content |-> "lore D", keywords |-> << <<" ">>, <<>> >>,
      priority |-> 1 ]
RecordNoContent == [ name |-> NameD, content |-> "" ]
RecordBadTemplate == [ name |-> NameD, content |-> "lore", template |-> "nope" ]

Lorefiles ==
    { <<RecordB, RecordB>>,
      <<[name |-> NameA, content |-> "other A"], RecordNoContent,
        RecordBadTemplate, RecordD>> }

BookNames == {NameA, NameLong}
BookContents == {"lore", ""}
DeleteLists == { <<>>, <<NameA>>, <<NameA2, NameB>>, <<NameD, NameLong>> }
ScopeLists == { <<>>, <<NameZ, NameA>> }

\* the scopes of the named entries
ScopesOf(es, names) == [i \in 1..Len(names) |-> get_entry(es, names[i]).scope]

InitBook ==
    LET reg == register_entry(<<>>, <<>>, BookStorage)
        saved == sort_entries_by_priority(reg.entries, reg.storage)
    IN  /\ entries = saved.entries
        /\ entry_storage = saved.storage
        /\ data = << >>
        /\ born = << >>
        /\ jobs = register_all(saved.entries)
        /\ started = TRUE
        /\ loader = LoaderDone
        /\ now = 0
        /\ allow_same_priority = FALSE
        /\ max_inject_count = 0
        /\ ret = [op |-> "init"]

\* the add command: 添加条目 <name> <content>
AddEntry(name, content) ==
    /\ Len(entries) < MaxEntries
    /\ LET d == [name |-> name, content |-> content] IN
       IF Len(name) > 10 \/ content = "" \/ AddRejects(d)
       THEN /\ UNCHANGED <<entries, entry_storage>>
            /\ ret' = [op |-> "add", names |-> <<name>>, out |-> <<>>]
       ELSE LET added == add_entry(entries, entry_storage, d) IN
            /\ entries' = added.entries
            /\ entry_storage' = added.storage
            /\ ret' = [op |-> "add", names |-> <<name>>,
                       out |-> <<added.entry.name>>]
    /\ UNCHANGED <<data, jobs, started, loader,
                   now, allow_same_priority, max_inject_count, born>>

\* the delete command: 删除条目 <name> ...
DeleteEntry(names) ==
    /\ IF names = <<>>
       THEN /\ UNCHANGED <<entries, entry_storage>>
            /\ ret' = [op |-> "delete", names |-> names, out |-> <<>>,
                       failed |-> <<>>]
       ELSE LET r == remove_entries(entries, entry_storage, names) IN
            /\ entries' = r.entries
            /\ entry_storage' = r.storage
            /\ ret' = [op |-> "delete", names |-> names, out |-> r.success,
                       failed |-> r.failed]
    /\ UNCHANGED <<data, jobs, started, loader,
                   now, allow_same_priority, max_inject_count, born>>

\* _load_lorefiles reads one lorefile
LoadLorefile(records) ==
    /\ LET loaded == load_entries(entries, entry_storage, records) IN
       /\ Len(loaded.entries) <= MaxEntries
       /\ entries' = loaded.entries
       /\ entry_storage' = loaded.storage
       /\ ret' = [op |-> "load", names |-> NamesOf(records),
                  records |-> records, out |-> <<>>]
    /\ UNCHANGED <<data, jobs, started, loader,
                   now, allow_same_priority, max_inject_count, born>>

\* the enable command: 启用条目 <name> ...
EnableEntry(umo, names) ==
    /\ IF names = <<>>
       THEN /\ UNCHANGED <<entries, entry_storage>>
            /\ ret' = [op |-> "enable", umo |-> umo, names |-> names,
                       had |-> <<>>, out |-> <<>>]
       ELSE LET r == ScopeLoopOver(entries, entry_storage, names, umo,
                                   <<>>, <<>>, TRUE) IN
            /\ entries' = r.entries
            /\ entry_storage' = r.storage
            /\ ret' = [op |-> "enable", umo |-> umo, names |-> names,
                       had |-> ScopesOf(entries, r.ok), out |-> r.ok]
    /\ UNCHANGED <<data, jobs, started, loader,
                   now, allow_same_priority, max_inject_count, born>>

\* the disable command: 禁用条目 <name> ..., which also removes the named
\* entries from the conversation
DisableEntry(umo, names) ==
    /\ IF names = <<>>
       THEN /\ UNCHANGED <<entries, entry_storage, data, born>>
            /\ ret' = [op |-> "disable", umo |-> umo, names |-> names,
                       had |-> <<>>, out |-> <<>>]
       ELSE LET r == ScopeLoopOver(entries, entry_storage, names, umo,
                                   <<>>, <<>>, FALSE)
                s == remove(data, umo, r.ok)
            IN  /\ entries' = r.entries
                /\ entry_storage' = r.storage
                /\ data' = s.data
                /\ born' = Born(s.data, umo, {}, {}, now)
                /\ ret' = [op |-> "disable", umo |-> umo, names |-> names,
                           had |-> ScopesOf(entries, r.ok), out |-> r.ok]
    /\ UNCHANGED <<jobs, started, loader,
                   now, allow_same_priority, max_inject_count>>

NextBook ==
    \/ \E name \in BookNames, content \in BookContents : AddEntry(name, content)
    \/ \E names \in DeleteLists : DeleteEntry(names)
    \/ \E records \in Lorefiles : LoadLorefile(records)
    \/ \E umo \in UmosTwo, names \in ScopeLists : EnableEntry(umo, names)
    \/ \E umo \in UmosTwo, names \in ScopeLists : DisableEntry(umo, names)

SpecBook == InitBook /\ [][NextBook]_vars


\* C18: every entry of the registry has at least one keyword pattern: an
\* entry configured with no keyword, or with blank keywords only, has the
\* keyword list [name], which a message containing its name matches.
C18_KeywordsNeverEmpty ==
    \A i \in 1..Len(entries) :
        /\ entries[i].keywords # <<>>
        /\ (\A k \in 1..Len(entry_storage[i].keywords) :
                IsBlank(entry_storage[i].keywords[k]))
              => /\ entries[i].keywords = <<entries[i].name>>
                 /\ MatchKeywords(entries[i], entries[i].name)

\* the step is an enable or a disable command
ScopeCommand == ret'.op \in {"enable", "disable"}

\* entry i of the registry is restricted and is still restricted after the
\* step; when the step disables it for the one conversation its scope named,
\* its scope is ["admin"] afterwards
StaysRestricted(i) ==
    entries[i].scope # <<>>
        => /\ HasEntry(entries', entries[i].name)
           /\ get_entry(entries', entries[i].name).scope # <<>>
           /\ ( /\ ret'.op = "disable"
                /\ entries[i].name \in Range(ret'.names)
                /\ entries[i].scope = <<ret'.umo>> )
                 => get_entry(entries', entries[i].name).scope = <<"admin">>

NamesDistinct ==
    \A i, j \in 1..Len(entries) : i # j => entries[i].name # entries[j].name

\* an add command that added an entry gave it the name asked for when that was
\* free, and otherwise name_k for the smallest k >= 2 with name_k free
AddedUnderFreeName ==
    (ret'.op = "add" /\ ret'.out # <<>>)
        => LET asked == ret'.names[1]
               got == ret'.out[1]
           IN  /\ HasEntry(entries', got)
               /\ ~HasEntry(entries, got)
               /\ IF ~HasEntry(entries, asked) THEN got = asked
                  ELSE \E k \in 2..(Len(entries) + 2) :
                          /\ got = Suffixed(asked, k)
                          /\ \A j \in 2..(k - 1) :
                                 HasEntry(entries, Suffixed(asked, j))

\* C20: the names of the registry are pairwise distinct after the initial
\* registration and after every add, load of a lorefile and delete; a name
\* that is taken is replaced by name_k with the smallest unused k >= 2.
C20_NamesDistinct == []NamesDistinct /\ [][AddedUnderFreeName]_vars

\* an add command asking for the taken name A got A_2 while A_3 was taken:
\* the smallest free suffix, not the next one after the largest
C20_Witness ==
    /\ ret.op = "add"
    /\ ret.names = <<NameA>>
    /\ ret.out = <<NameA2>>
    /\ HasEntry(entries, NameA)
    /\ HasEntry(entries, Suffixed(NameA, 3))
    /\ NamesDistinct

(***************************************************************************)
(* Claims about the registry's operations                                  *)
(***************************************************************************)

\* the priorities the entries of es use
UsedPriorities(es) == {es[i].priority : i \in 1..Len(es)}

\* p is the smallest integer above base that no entry of es uses
FirstFreeAbove(es, base, p) ==
    /\ p > base
    /\ p \notin UsedPriorities(es)
    /\ \A q \in (base + 1)..(p - 1) : q \in UsedPriorities(es)

\* load_entry_from_lorefile hands this record to add_entry, which accepts it
Accepted(rec) ==
    /\ Truthy(rec, "name")
    /\ TruthyStr(rec, "content")
    /\ ~AddRejects(rec)

\* position i of the loaded file holds the record that became an entry: the
\* first accepted record of its name, for a name the registry did not hold
LoadedFrom(i) ==
    LET recs == ret'.records IN
    /\ Accepted(recs[i])
    /\ ~HasEntry(entries, recs[i]["name"])
    /\ \A j \in 1..(i - 1) : Accepted(recs[j]) => recs[j]["name"] # recs[i]["name"]

\* the priority of the entry a step added is the one add_entry's rule gives
C21_Step ==
    /\ (ret'.op = "add" /\ ret'.out # <<>>)
          => FirstFreeAbove(entries, 50, get_entry(entries', ret'.out[1]).priority)
    /\ ret'.op = "load"
          => \A i \in 1..Len(ret'.records) :
                LoadedFrom(i)
                    => LET rec == ret'.records[i]
                           p == get_entry(entries', rec["name"]).priority
                           base == TemplateDefaults(TemplateFromData(rec)).priority
                       IN  IF Has(rec, "priority") THEN p = rec["priority"]
                           ELSE FirstFreeAbove(entries, base, p)

\* C21: add_entry uses an explicitly supplied priority as it is, and otherwise
\* assigns the smallest integer above the template's base priority that no
\* entry of the registry uses, which therefore differs from every priority of
\* the registry.
C21_PriorityResolved == [][C21_Step]_vars

\* an add command was given priority 51 although 52 is in use: the gap left by
\* a deleted entry is filled
C21_Witness ==
    /\ ret.op = "add"
    /\ ret.out # <<>>
    /\ get_entry(entries, ret.out[1]).priority = 51
    /\ 52 \in UsedPriorities(entries)

(***************************************************************************)
(* The Lorebook object under direct calls of its methods                   *)
(***************************************************************************)

\* s.strip() for a list of characters
RECURSIVE StripLeft(_)
StripLeft(s) == IF s # <<>> /\ Head(s) = " " THEN StripLeft(Tail(s)) ELSE s

Reverse(s) == [i \in 1..Len(s) |-> s[Len(s) + 1 - i]]

Strip(s) == Reverse(StripLeft(Reverse(StripLeft(s))))

\* s.strip() for the contents of the model, which are plain strings
StripStr(c) == IF c = " " THEN "" ELSE c

\* add_entry, the merge of the keyword arguments into the dict
MergeArgs(d, kw) ==
    LET d1 == IF kw.has_name THEN Put(d, "name", Strip(kw.name)) ELSE d
    IN  IF kw.has_content THEN Put(d1, "content", StripStr(kw.content)) ELSE d1

\* add_entry(data, name=..., content=...): the lists afterwards, and whether
\* the call raised
AddCall(es, st, d, kw) ==
    LET merged == MergeArgs(d, kw) IN
    IF AddRejects(merged)
    THEN [entries |-> es, storage |-> st, raised |-> TRUE, name |-> <<>>]
    ELSE LET added == add_entry(es, st, merged) IN
         [entries |-> added.entries, storage |-> added.storage,
          raised |-> FALSE, name |-> added.entry.name]

\* the arguments of the direct calls of the model
NoArgs == [has_name |-> FALSE, has_content |-> FALSE]
ApiArgs ==
    { NoArgs,
      [has_name |-> TRUE, name |-> <<" ">>, has_content |-> FALSE],
      [has_name |-> FALSE, has_content |-> TRUE, content |-> " "] }
ApiData ==
    { << >>,
      [content |-> "lore"],
      [name |-> <<>>, content |-> "lore"],
      [name |-> NameB],
      [name |-> NameB, content |-> ""],
      [name |-> NameB, content |-> "lore B"],
      RecordBadTemplate }

\* a direct call of Lorebook.add_entry
CallAdd(d, kw) ==
    /\ LET r == AddCall(entries, entry_storage, d, kw) IN
       /\ Len(r.entries) <= MaxEntries
       /\ entries' = r.entries
       /\ entry_storage' = r.storage
       /\ ret' = [op |-> "call_add", data |-> MergeArgs(d, kw), raised |-> r.raised,
                  out |-> r.name]
    /\ UNCHANGED <<data, jobs, started, loader,
                   now, allow_same_priority, max_inject_count, born>>

\* a method that found no entry of the name reporting success
NotFoundMut(es, st) == [entries |-> es, storage |-> st, ok |-> TRUE]

\* `if not entry: return False`
NotFound(es, st) == [entries |-> es, storage |-> st, ok |-> FALSE]

\* the method found the entry, changed it and returns True
Found(saved) == [entries |-> saved.entries, storage |-> saved.storage, ok |-> TRUE]

\* LoreEntry.set_keywords: the new list, compiled
set_keywords(e, keywords) ==
    [e EXCEPT !.keywords = keywords,
              !._compiled_patterns = CompilePatterns(keywords)]

\* update_keywords(name, keywords)
update_keywords(es, st, name, keywords) ==
    IF ~HasEntry(es, name) THEN NotFound(es, st)
    ELSE Found(sort_entries_by_priority(
             [i \in 1..Len(es) |->
                 IF es[i] = get_entry(es, name) THEN set_keywords(es[i], keywords)
                 ELSE es[i]],
             [i \in 1..Len(st) |->
                 IF st[i].name = name THEN [st[i] EXCEPT !.keywords = keywords]
                 ELSE st[i]]))

\* update_priority(name, priority), also for a name that is not in the registry
UpdatePriorityCall(es, st, name, priority) ==
    IF ~HasEntry(es, name) THEN NotFound(es, st)
    ELSE Found(update_priority(es, st, name, priority))

\* add_scope_to_entry(name, scope), also for a name that is not in the registry
AddScopeCall(es, st, name, scope) ==
    IF ~HasEntry(es, name) THEN NotFound(es, st)
    ELSE Found(add_scope_to_entry(es, st, name, scope))

\* remove_scope_from_entry(name, scope), also for a name that is not in the
\* registry
RemoveScopeCall(es, st, name, scope) ==
    IF ~HasEntry(es, name) THEN NotFound(es, st)
    ELSE Found(remove_scope_from_entry(es, st, name, scope))

ApiNames == {NameA, NameZ}
ApiKeywords == { << <<"b">> >> }
ApiScopes == {"s1"}

\* a direct call of one of the four targeted mutators: r is what it returns
CallDone(op, name, r) ==
    /\ entries' = r.entries
    /\ entry_storage' = r.storage
    /\ ret' = [op |-> op, names |-> <<name>>, out |-> r.ok]
    /\ UNCHANGED <<data, jobs, started, loader,
                   now, allow_same_priority, max_inject_count, born>>

CallUpdateKeywords(name, keywords) ==
    CallDone("update_keywords", name,
             update_keywords(entries, entry_storage, name, keywords))

CallUpdatePriority(name, priority) ==
    CallDone("update_priority", name,
             UpdatePriorityCall(entries, entry_storage, name, priority))

CallAddScope(name, scope) ==
    CallDone("add_scope_to_entry", name,
             AddScopeCall(entries, entry_storage, name, scope))

CallRemoveScope(name, scope) ==
    CallDone("remove_scope_from_entry", name,
             RemoveScopeCall(entries, entry_storage, name, scope))

ApiPriorities == {2, 4}
ApiDeleteLists == { <<NameZ>>, <<NameZ, NameA2>> }

NextApi ==
    \/ \E d \in ApiData, kw \in ApiArgs : CallAdd(d, kw)
    \/ \E name \in ApiNames, keywords \in ApiKeywords :
            CallUpdateKeywords(name, keywords)
    \/ \E name \in ApiNames, p \in ApiPriorities : CallUpdatePriority(name, p)
    \/ \E name \in ApiNames, scope \in ApiScopes : CallAddScope(name, scope)
    \/ \E name \in ApiNames, scope \in ApiScopes : CallRemoveScope(name, scope)
    \/ \E names \in ApiDeleteLists : DeleteEntry(names)

SpecApi == InitBook /\ [][NextApi]_vars

\* the dict add_entry was called with lacks a name or a content, or holds an
\* empty one
LacksNameOrContent(d) == ~Truthy(d, "name") \/ ~TruthyStr(d, "content")

\* C22: add_entry called without a name or without a content, or with an
\* empty one, raises its validation error, and the entry list and the
\* persisted storage are what they were before the call.
C22_InvalidAddChangesNothing ==
    [][(ret'.op = "call_add" /\ LacksNameOrContent(ret'.data))
          => /\ ret'.raised
             /\ entries' = entries
             /\ entry_storage' = entry_storage]_vars

\* add_entry has raised for a name that is blank before it is stripped, called
\* on a registry that an earlier call had added an entry to
C22_Witness ==
    /\ ret.op = "call_add"
    /\ ret.raised
    /\ Has(ret.data, "name") /\ ret.data["name"] = <<>>
    /\ Has(ret.data, "content") /\ ret.data["content"] = "lore B"
    /\ HasEntry(entries, NameB)

\* the step is a call of one of the four targeted mutators
TargetedCall ==
    ret'.op \in {"update_keywords", "update_priority",
                 "add_scope_to_entry", "remove_scope_from_entry"}

\* C24: update_keywords, update_priority, add_scope_to_entry and
\* remove_scope_from_entry, called with a name that is not in the registry,
\* return False and leave the entry list and the persisted storage unchanged.
C24_UnknownNameChangesNothing ==
    [][(TargetedCall /\ ~HasEntry(entries, ret'.names[1]))
          => /\ ret'.out = FALSE
             /\ entries' = entries
             /\ entry_storage' = entry_storage]_vars

\* remove_scope_from_entry has returned False for the unknown name Z, on a
\* registry whose entry A the same methods had changed before (keywords,
\* priority and scope)
C24_Witness ==
    /\ ret.op = "remove_scope_from_entry"
    /\ ret.names = <<NameZ>>
    /\ ret.out = FALSE
    /\ ~HasEntry(entries, NameZ)
    /\ get_entry(entries, NameA).keywords = << <<"b">> >>
    /\ get_entry(entries, NameA).priority = 2
    /\ get_entry(entries, NameA).scope = <<"s1">>

\* the names of the entries of es
NameSet(es) == {es[i].name : i \in 1..Len(es)}

\* the members of s whose name is not requested, in their order
NotRequested(s, names) == SelectSeq(s, LAMBDA e : e.name \notin Range(names))

\* C23: remove_entries(names) returns as removed the requested names that were
\* in the registry and as not found the requested names that were not;
\* afterwards the registry and the storage hold exactly the previous entries
\* whose names were not requested, unchanged and in their previous order.
C23_RemoveEntries ==
    [][(ret'.op = "delete" /\ ret'.names # <<>>)
          => /\ Range(ret'.out) = Range(ret'.names) \cap NameSet(entries)
             /\ Range(ret'.failed) = Range(ret'.names) \ NameSet(entries)
             /\ entries' = NotRequested(entries, ret'.names)
             /\ entry_storage' = NotRequested(entry_storage, ret'.names)]_vars

\* a delete command removed one of its two names and did not find the other,
\* and two entries are left
C23_Witness ==
    /\ ret.op = "delete"
    /\ Len(ret.names) = 2
    /\ Len(ret.out) = 1
    /\ Len(ret.failed) = 1
    /\ Len(entries) = 2

(***************************************************************************)
(* Claims about the session cache's remove                                 *)
(***************************************************************************)

\* C25: remove(c, names) returns exactly the names of the entries stored for
\* c whose name is requested, drops those entries, keeps every other entry of
\* c unchanged and in place, drops the key c when nothing remains, and leaves
\* the other conversations alone.
C25_SessionRemove ==
    [][ret'.op = "remove"
          => LET c == ret'.umo
                 old == StoredFor(data, c)
                 requested(e) == e.name \in Range(ret'.names)
                 kept == SelectSeq(old, LAMBDA e : ~requested(e))
             IN  /\ ret'.out = NamesOf(SelectSeq(old, requested))
                 /\ StoredFor(data', c) = kept
                 /\ (c \in DOMAIN data') = (kept # <<>>)
                 /\ \A c2 \in (DOMAIN data \cup DOMAIN data') \ {c} :
                        /\ c2 \in DOMAIN data /\ c2 \in DOMAIN data'
                        /\ data'[c2] = data[c2]]_vars

\* remove has taken two of the three entries stored for the conversation and
\* the third is still stored
C25_Witness ==
    /\ ret.op = "remove"
    /\ Len(ret.out) = 2
    /\ ret.umo \in DOMAIN data
    /\ Len(data[ret.umo]) = 1

(***************************************************************************)
(* core/share.py, core/lorefile.py : import and export of lorefiles        *)
(***************************************************************************)

\* LoreFile._entry_to_dict: the lorefile record of an entry; template is the
\* value of the entry's template
entry_to_dict(e, template) ==
    [ template |-> template,
      name |-> e.name,
      enabled |-> e.enabled,
      priority |-> e.priority,
      scope |-> e.scope,
      keywords |-> e.keywords,
      probability |-> e.probability,
      content |-> e.content,
      duration |-> e.duration,
      times |-> e.times ]

\* LoreFile.dump: the records of the entries (st holds the dicts they wrap)
dump(es, st) ==
    [i \in 1..Len(es) |-> entry_to_dict(es[i], TemplateFromData(st[i]))]

\* the keyword parameters load_entry_from_lorefile declares
LoadKeywords == {"skip_same"}

\* a call load_entry_from_lorefile(path, **kwargs) whose file holds `records`:
\* an undeclared keyword raises TypeError before the body runs
LoadCall(es, st, records, kwargs) ==
    IF ~(kwargs \subseteq LoadKeywords)
    THEN [entries |-> es, storage |-> st, raised |-> TRUE]
    ELSE LET loaded == load_entries(es, st, records) IN
         [entries |-> loaded.entries, storage |-> loaded.storage,
          raised |-> FALSE]

\* the import command, for a message that quotes a lorefile holding `records`:
\* download_lorebook calls load_entry_from_lorefile(path, override=False) and
\* reports the exception
ImportLorebook(records) ==
    /\ LET r == LoadCall(entries, entry_storage, records, {"override"}) IN
       /\ Len(r.entries) <= MaxEntries
       /\ entries' = r.entries
       /\ entry_storage' = r.storage
       /\ ret' = [op |-> "import", names |-> NamesOf(records),
                  records |-> records, raised |-> r.raised, out |-> <<>>]
    /\ UNCHANGED <<data, jobs, started, loader,
                   now, allow_same_priority, max_inject_count, born>>

\* the registry is exported to a lorefile, and the lorefile is loaded by a
\* plugin whose registry is empty: out is that registry afterwards
ExportImport ==
    /\ LET file == dump(entries, entry_storage)
           loaded == load_entries(<<>>, <<>>, file)
       IN  ret' = [op |-> "export_import", names |-> NamesOf(file),
                   records |-> file, out |-> loaded.entries]
    /\ UNCHANGED <<entries, entry_storage, data, jobs, started, loader, now,
                   allow_same_priority, max_inject_count, born>>

InitShare ==
    LET reg == register_entry(<<>>, <<>>, InitStorage)
        saved == sort_entries_by_priority(reg.entries, reg.storage)
    IN  /\ entries = saved.entries
        /\ entry_storage = saved.storage
        /\ data = << >>
        /\ born = << >>
        /\ jobs = register_all(saved.entries)
        /\ started = TRUE
        /\ loader = LoaderDone
        /\ now = 0
        /\ allow_same_priority = FALSE
        /\ max_inject_count = 0
        /\ ret = [op |-> "init"]

ShareDeleteLists == { <<NameA>>, <<NameB>>, <<NameC, NameD>> }

NextShare ==
    \/ \E records \in Lorefiles : ImportLorebook(records)
    \/ \E records \in Lorefiles : LoadLorefile(records)
    \/ \E names \in ShareDeleteLists : DeleteEntry(names)
    \/ ExportImport

SpecShare == InitShare /\ [][NextShare]_vars

\* record i of the imported list has a name and a content, and no entry of
\* the registry has its name
NewRecord(i) ==
    /\ Truthy(ret'.records[i], "name")
    /\ TruthyStr(ret'.records[i], "content")
    /\ ~HasEntry(entries, ret'.records[i]["name"])

\* C26: the import command adds every record that add_entry accepts and whose
\* name is new to the registry, whatever records came before it in the file,
\* and leaves the entries the registry held as they were.
C26_ImportAddsNewRecords ==
    [][ret'.op = "import"
          => /\ \A i \in 1..Len(ret'.records) :
                   (NewRecord(i) /\ Accepted(ret'.records[i]))
                       => HasEntry(entries', ret'.records[i]["name"])
             /\ \A j \in 1..Len(entries) : entries[j] \in Range(entries')]_vars

\* the fields a lorefile persists are the same in both entries
PersistedEqual(e, f) ==
    /\ e.name = f.name
    /\ e.enabled = f.enabled
    /\ e.priority = f.priority
    /\ e.scope = f.scope
    /\ e.keywords = f.keywords
    /\ e.probability = f.probability
    /\ e.cron = f.cron
    /\ e.content = f.content
    /\ e.duration = f.duration
    /\ e.times = f.times

\* C27: after the registry is exported and the file is imported into an empty
\* registry, that registry holds one entry per exported entry, with the same
\* name, enabled, priority, scope, keywords, probability, schedule, content,
\* duration and times.
C27_ExportImportRoundTrip ==
    ret.op = "export_import"
        => /\ Len(ret.out) = Len(entries)
           /\ \A i \in 1..Len(entries) :
                 \E j \in 1..Len(ret.out) : PersistedEqual(entries[i], ret.out[j])

(***************************************************************************)
(* core/scheduler.py : the life cycle of LoreCronScheduler                 *)
(***************************************************************************)

\* a cron line that CronTrigger.from_crontab rejects
CronBad == <<"0", "8", "*", "*">>

\* AsyncIOScheduler.add_job(id=..., replace_existing=...): a job id is held
\* once; adding a held id replaces the job, or raises when not allowed to
add_job(js, id, replace_existing) ==
    IF id \in js /\ ~replace_existing
    THEN [jobs |-> js, raised |-> TRUE]
    ELSE [jobs |-> js \cup {id}, raised |-> FALSE]

\* _try_register_entry registering only the entries that are enabled
try_register_entry_mut(js, e) ==
    IF e.cron = <<>> \/ ~CronParses(e.cron) \/ ~e.enabled THEN js
    ELSE add_job(js, e.name, TRUE).jobs

\* _try_register_entry(entry): the jobs afterwards
try_register_entry(js, e) ==
    IF e.cron = <<>> THEN js
    ELSE IF ~CronParses(e.cron) THEN js
    ELSE add_job(js, e.name, TRUE).jobs

\* _register_all: _try_register_entry for every entry of the registry
RECURSIVE RegisterAll(_, _)
RegisterAll(js, es) ==
    IF es = <<>> THEN js
    ELSE RegisterAll(try_register_entry(js, Head(es)), Tail(es))

\* start(): the jobs and the flag afterwards
start(js, es, is_started) ==
    IF is_started THEN [jobs |-> js, started |-> TRUE]
    ELSE [jobs |-> RegisterAll(js, es), started |-> TRUE]

\* reload(): the jobs afterwards
reload(js, es, is_started) ==
    IF ~is_started THEN js
    ELSE RegisterAll({}, es)

\* the configurations the plugin is started with: A without schedule, B and C
\* enabled or not, with a valid, an invalid or no schedule
CronStorages ==
    { << EntryA,
         [EntryB EXCEPT !.enabled = eb, !.cron = cb],
         [EntryC EXCEPT !.enabled = ec, !.cron = cc] >> :
      eb \in BOOLEAN, cb \in {CronDaily, CronBad},
      ec \in BOOLEAN, cc \in {CronDaily, CronNone} }

\* a lorefile whose record has a schedule
RecordCron ==
    [ name |-> NameD, content |-> "lore D", cron |-> CronDaily, priority |-> 4 ]
CronLorefiles == { <<RecordCron>> }
CronDeleteLists == { <<NameB>>, <<NameC, NameD>> }

\* the plugin after Lorebook.initialize and before cron.start()
InitCron ==
    /\ \E storage \in CronStorages :
          LET reg == register_entry(<<>>, <<>>, storage)
              saved == sort_entries_by_priority(reg.entries, reg.storage)
          IN  /\ entries = saved.entries
              /\ entry_storage = saved.storage
    /\ jobs = {}
    /\ started = FALSE
    /\ loader = LoaderDone
    /\ data = << >>
    /\ born = << >>
    /\ now = 0
    /\ allow_same_priority = FALSE
    /\ max_inject_count = 0
    /\ ret = [op |-> "init"]

\* cron.start()
Start ==
    /\ LET r == start(jobs, entries, started) IN
       /\ jobs' = r.jobs
       /\ started' = r.started
    /\ ret' = [op |-> "start", was_started |-> started, out |-> <<>>]
    /\ UNCHANGED <<entries, entry_storage, data, loader, now,
                   allow_same_priority, max_inject_count, born>>

\* cron.reload()
Reload ==
    /\ jobs' = reload(jobs, entries, started)
    /\ ret' = [op |-> "reload", was_started |-> started, out |-> <<>>]
    /\ UNCHANGED <<entries, entry_storage, data, started, loader, now,
                   allow_same_priority, max_inject_count, born>>

NextCron ==
    \/ Start
    \/ Reload
    \/ \E names \in CronDeleteLists : DeleteEntry(names)
    \/ \E records \in CronLorefiles : LoadLorefile(records)
    \/ \E name \in {NameB}, content \in {"lore"} : AddEntry(name, content)
    \/ \E name \in jobs : OnTrigger(name)

SpecCron == InitCron /\ [][NextCron]_vars

\* the names of the entries of es whose schedule is a valid cron line
Scheduled(es) ==
    {es[i].name : i \in {j \in 1..Len(es) : CronParses(es[j].cron)}}

\* the names of the enabled entries of es whose schedule is a valid cron line
EnabledScheduled(es) ==
    {es[i].name : i \in {j \in 1..Len(es) :
                            es[j].enabled /\ CronParses(es[j].cron)}}

\* the last step was a start() that found the scheduler stopped
JustStarted == ret.op = "start" /\ ~ret.was_started

C30_JobsFollowRegistry ==
    started => jobs = Scheduled(entries)

\* ---------------------------------------------------------------------------
\* The registry while the thread of _load_lorefiles is running
\* ---------------------------------------------------------------------------

\* cfg.lorefiles holds one file of two records
LoadFile == <<RecordD, RecordB>>

\* names and priorities of the calls made while the thread runs
LoadNames == {NameD}
LoadDeleteLists == { <<NameA>> }
LoadPriorities == {0}

\* initialize(): the storage is registered, the thread is created with the
\* whole file ahead of it, the registry is saved and the scheduler started
InitLoad ==
    LET reg == register_entry(<<>>, <<>>, <<EntryA>>)
        saved == sort_entries_by_priority(reg.entries, reg.storage)
    IN  /\ entries = saved.entries
        /\ entry_storage = saved.storage
        /\ data = << >>
        /\ born = << >>
        /\ jobs = register_all(saved.entries)
        /\ started = TRUE
        /\ loader = [pc |-> "next", records |-> LoadFile]
        /\ now = 0
        /\ allow_same_priority = FALSE
        /\ max_inject_count = 0
        /\ ret = [op |-> "init"]

\* the thread, load_entry_from_lorefile: the next record is skipped, or
\* add_entry builds its dict from the entries of this moment
LoaderNext ==
    /\ loader.pc = "next"
    /\ IF loader.records = <<>>
       THEN loader' = LoaderDone
       ELSE LET item == Head(loader.records) IN
            IF \/ ~Truthy(item, "name") \/ ~TruthyStr(item, "content")
               \/ HasEntry(entries, item.name)
               \/ AddRejects(item)
            THEN loader' = [pc |-> "next", records |-> Tail(loader.records)]
            ELSE loader' = [pc |-> "append_entry",
                            records |-> Tail(loader.records),
                            pending |-> full_data(entries, item)]
    /\ ret' = [op |-> "loader"]
    /\ UNCHANGED <<entries, entry_storage, data, jobs, started,
                   now, allow_same_priority, max_inject_count, born>>

\* the thread, add_entry: self.entries.append(entry)
LoaderAppendEntry ==
    /\ loader.pc = "append_entry"
    /\ entries' = Append(entries, LoreEntry(loader.pending))
    /\ loader' = [loader EXCEPT !.pc = "append_storage"]
    /\ ret' = [op |-> "loader"]
    /\ UNCHANGED <<entry_storage, data, jobs, started,
                   now, allow_same_priority, max_inject_count, born>>

\* the thread, add_entry: self.cfg.entry_storage.append(full_data)
LoaderAppendStorage ==
    /\ loader.pc = "append_storage"
    /\ entry_storage' = Append(entry_storage, loader.pending)
    /\ loader' = [loader EXCEPT !.pc = "save"]
    /\ ret' = [op |-> "loader"]
    /\ UNCHANGED <<entries, data, jobs, started,
                   now, allow_same_priority, max_inject_count, born>>

\* the thread, add_entry: _save_config(), and the record is counted as loaded
\* or, when the save raises, as failed
LoaderSave ==
    /\ loader.pc = "save"
    /\ LET saved == sort_entries_by_priority(entries, entry_storage) IN
       /\ entries' = saved.entries
       /\ entry_storage' = saved.storage
       /\ ret' = [op |-> "loaded", names |-> <<loader.pending.name>>,
                  raised |-> SaveRaises(entries, entry_storage)]
    /\ loader' = [pc |-> "next", records |-> loader.records]
    /\ UNCHANGED <<data, jobs, started,
                   now, allow_same_priority, max_inject_count, born>>

\* the event loop, add_entry(name=, content=), run between two steps of the thread
AddWhileLoading(name) ==
    /\ loader.pc # "done"
    /\ Len(entries) < MaxEntries
    /\ LET d == [name |-> name, content |-> "lore"]
           added == add_entry(entries, entry_storage, d)
       IN  /\ entries' = added.entries
           /\ entry_storage' = added.storage
           /\ ret' = [op |-> "add", names |-> <<added.entry.name>>,
                      raised |-> SaveRaises(added.entries, added.storage)]
    /\ UNCHANGED <<data, jobs, started, loader,
                   now, allow_same_priority, max_inject_count, born>>

\* the event loop, remove_entries(names), run between two steps of the thread
RemoveWhileLoading(names) ==
    /\ loader.pc # "done"
    /\ LET r == remove_entries(entries, entry_storage, names) IN
       /\ entries' = r.entries
       /\ entry_storage' = r.storage
       /\ ret' = [op |-> "delete", names |-> r.success,
                  raised |-> r.success # <<>> /\ SaveRaises(r.entries, r.storage)]
    /\ UNCHANGED <<data, jobs, started, loader,
                   now, allow_same_priority, max_inject_count, born>>

\* the event loop, update_priority(name, priority) of a registered name, run
\* between two steps of the thread
UpdatePriorityWhileLoading(name, priority) ==
    /\ loader.pc # "done"
    /\ HasEntry(entries, name)
    /\ LET saved == update_priority(entries, entry_storage, name, priority) IN
       /\ entries' = saved.entries
       /\ entry_storage' = saved.storage
       /\ ret' = [op |-> "set_priority", names |-> <<name>>,
                  raised |-> SaveRaises(saved.entries, saved.storage)]
    /\ UNCHANGED <<data, jobs, started, loader,
                   now, allow_same_priority, max_inject_count, born>>

NextLoad ==
    \/ LoaderNext
    \/ LoaderAppendEntry
    \/ LoaderAppendStorage
    \/ LoaderSave
    \/ \E name \in LoadNames : AddWhileLoading(name)
    \/ \E names \in LoadDeleteLists : RemoveWhileLoading(names)
    \/ \E name \in LoadNames, priority \in LoadPriorities :
          UpdatePriorityWhileLoading(name, priority)

SpecLoad == InitLoad /\ [][NextLoad]_vars

InBoth(name) ==
    /\ HasEntry(entries, name)
    /\ \E i \in 1..Len(entry_storage) : entry_storage[i].name = name

\* no call of the event loop and no add of the thread has raised
NoCallRaises ==
    ret.op \in {"add", "delete", "set_priority", "loaded"} => ~ret.raised

\* an entry whose add has returned is in the entry list and in the storage
AddedInBoth ==
    (ret.op \in {"add", "loaded"} /\ ~ret.raised) => InBoth(ret.names[1])

\* C28: while the thread of the startup import runs, the names of the registry
\* stay pairwise distinct, an entry whose add has returned is in the entry list
\* and in the storage, and no call raises.
C28_SafeWhileLoading ==
    /\ NamesDistinct
    /\ AddedInBoth
    /\ NoCallRaises

\* ---------------------------------------------------------------------------
\* attach and the entries that survive it
\* ---------------------------------------------------------------------------

\* a copy stored before the message that is still available and shares neither
\* its name nor its priority with a candidate of the message
Survivor(e) ==
    /\ active(e, now)
    /\ e.name \notin Range(ret.names)
    /\ \A k \in 1..Len(entries) :
          entries[k].name \in Range(ret.names) => entries[k].priority # e.priority

\* C31: attach keeps every still-available entry of the conversation whose name
\* and priority differ from those of all candidates, with its activation time
\* and its injection count as they were.
C31_SurvivorsUntouched ==
    (ret.op = "llm" /\ ret.names # <<>>) =>
        \A i \in 1..Len(ret.had) :
            Survivor(ret.had[i]) =>
                \E j \in 1..Len(ret.mid) :
                    /\ ret.mid[j].name = ret.had[i].name
                    /\ ret.mid[j]._activated_at = ret.had[i]._activated_at
                    /\ ret.mid[j]._inject_count = ret.had[i]._inject_count

\* ---------------------------------------------------------------------------
\* attach under the flag allow_same_priority
\* ---------------------------------------------------------------------------

\* the names of the copies stored before the message that are still available
AvailableBefore == {ret.had[i].name : i \in {k \in 1..Len(ret.had) : active(ret.had[k], now)}}

\* the list right after attach holds one copy for each name of S
OnePerName(S) ==
    /\ Range(NamesOf(ret.mid)) = S
    /\ \A i, j \in 1..Len(ret.mid) : i # j => ret.mid[i].name # ret.mid[j].name

\* the copy stored for a candidate right after attach is the new clone, not
\* the copy the conversation held
CandidatesReplaced ==
    \A j \in 1..Len(ret.mid) :
        ret.mid[j].name \in Range(ret.names) =>
            /\ ret.mid[j]._inject_count = 0
            /\ ret.mid[j].priority = get_entry(entries, ret.mid[j].name).priority

\* C32: with allow_same_priority set, attach keeps one entry for every name
\* among the still-available entries and the candidates, equal priorities or
\* not, the copy of a candidate being the new one; with the flag not set, no
\* two entries of a conversation have the same priority.
C32_FlagDecidesTies ==
    /\ (allow_same_priority /\ ret.op = "llm" /\ ret.names # <<>>) =>
          /\ OnePerName(AvailableBefore \cup Range(ret.names))
          /\ CandidatesReplaced
    /\ ~allow_same_priority =>
          \A c \in DOMAIN data : \A i, j \in 1..Len(data[c]) :
              i # j => data[c][i].priority # data[c][j].priority

\* with the flag set, a message has activated again an entry the conversation
\* held and had rendered, next to an entry of the same priority
C32_Witness ==
    /\ allow_same_priority
    /\ ret.op = "llm"
    /\ \E i \in 1..Len(ret.had) :
          /\ ret.had[i].name \in Range(ret.names)
          /\ ret.had[i]._inject_count > 0
    /\ \E i, j \in 1..Len(ret.mid) :
          i # j /\ ret.mid[i].priority = ret.mid[j].priority

\* ---------------------------------------------------------------------------
\* Two conversations and an entry restricted to one of them
\* ---------------------------------------------------------------------------

\* B restricted to the admins and to conversation s1
EntryScoped == [EntryB EXCEPT !.scope = <<"admin", "s1">>]

InitScope ==
    LET reg == register_entry(<<>>, <<>>, <<EntryA, EntryScoped>>)
        saved == sort_entries_by_priority(reg.entries, reg.storage)
    IN  /\ entries = saved.entries
        /\ entry_storage = saved.storage
        /\ data = << >>
        /\ born = << >>
        /\ jobs = register_all(saved.entries)
        /\ started = TRUE
        /\ loader = LoaderDone
        /\ now = 0
        /\ allow_same_priority = TRUE
        /\ max_inject_count = 0
        /\ ret = [op |-> "init"]

NextScope ==
    \/ Tick
    \/ \E text \in TextsTwo, user_id \in UsersTwo, umo \in UmosTwo :
            OnLlmRequest(text, user_id, "", umo, FALSE, << >>)
    \/ \E umo \in UmosTwo : StopInject(umo, <<NameB>>)
    \/ SetPriority(NameB, 1)
    \/ \E name \in jobs : OnTrigger(name)

SpecScope == InitScope /\ [][NextScope]_vars

\* the copies of conversation c with a scope have a token naming c or one of
\* its callers, none of whom is an admin
ScopedWhereAllowed ==
    \A c \in DOMAIN data : \A i \in 1..Len(data[c]) :
        data[c][i].scope # <<>> =>
            \E k \in 1..Len(data[c][i].scope) :
                data[c][i].scope[k] \in {c} \cup UsersTwo

\* a name that a step adds to conversation c is the name of a registry entry
\* whose check_activate is true for the message of c the step handles
InsertedByGate ==
    \A c \in DOMAIN data' : \A n \in StoredNames(data', c) :
        (c \notin DOMAIN data \/ n \notin StoredNames(data, c)) =>
            /\ ret'.op = "llm"
            /\ ret'.umo = c
            /\ HasEntry(entries, n)
            /\ check_activate(get_entry(entries, n), ret'.text, ret'.user_id,
                              "", c, FALSE, 0, now).ok

WindowOf(e, f) ==
    IF ~e.enabled \/ Len(e.cron) # 5 THEN ~in_cron_window(e, now)
    ELSE IF e.duration <= 0 THEN in_cron_window(e, now)
    ELSE in_cron_window(e, now) <=> now <= f + e.duration

\* C34: the eligibility a firing at time f grants is a window: with a duration
\* d > 0 it holds up to f + d and not afterwards, with d <= 0 it holds at every
\* later time, and it never holds for an entry that is disabled or whose
\* schedule has not exactly 5 fields.  Checked for the firings that happened
\* and, for every entry, for a firing at each time up to now.
C34_FiringOpensWindow ==
    \A i \in 1..Len(entries) :
        /\ entries[i]._cron_fired_at # None =>
              WindowOf(entries[i], entries[i]._cron_fired_at)
        /\ \A f \in 0..now : WindowOf(on_cron_triggered(entries[i], f), f)

\* an entry of duration 1 fired at time 0 and its window is closed at time 2
C34_Witness ==
    /\ now = 2
    /\ \E i \in 1..Len(entries) :
          /\ entries[i].enabled
          /\ entries[i].duration = 1
          /\ entries[i]._cron_fired_at = 0
          /\ ~in_cron_window(entries[i], now)
          /\ in_cron_window(entries[i], 1)

\* ---------------------------------------------------------------------------
\* A job that fires for a missing or disabled entry
\* ---------------------------------------------------------------------------

\* the job that has just fired names no entry of the registry, or a disabled one
FiredForNobody ==
    /\ ret'.op = "cron"
    /\ \/ ~HasEntry(entries, ret'.names[1])
       \/ ~get_entry(entries, ret'.names[1]).enabled

\* C35: a job that fires for a name the registry no longer holds, or for an
\* entry that is disabled when it fires, changes nothing: no entry gains
\* schedule eligibility, and the storage, the sessions and the jobs stay as
\* they were.
C35_StaleFiringChangesNothing ==
    [][ FiredForNobody =>
            UNCHANGED <<entries, entry_storage, data, jobs, started, loader,
                        now, allow_same_priority, max_inject_count, born>> ]_vars

\* the job of a deleted entry has fired while a disabled entry has a job too
C35_Witness ==
    /\ ret.op = "cron"
    /\ ~HasEntry(entries, ret.names[1])
    /\ \E i \in 1..Len(entries) :
          ~entries[i].enabled /\ entries[i].name \in jobs

\* ---------------------------------------------------------------------------
\* The entry list and the storage side by side
\* ---------------------------------------------------------------------------

\* s is in ascending order of priority
AscendingPriority(s) ==
    \A i \in 1..(Len(s) - 1) : s[i].priority <= s[i + 1].priority

\* C36: after initialize and after every registry call (add, remove, update of
\* keywords, priority or scope), the entry list and the storage have the same
\* length and the same names at the same positions, and both are in ascending
\* order of priority.
C36_ListsAligned ==
    /\ Len(entries) = Len(entry_storage)
    /\ \A i \in 1..Len(entries) : entries[i].name = entry_storage[i].name
    /\ AscendingPriority(entries)
    /\ AscendingPriority(entry_storage)

\* update_priority has just moved A behind the entry it preceded
C36_Witness ==
    /\ ret.op = "update_priority"
    /\ ret.out
    /\ ret.names = <<NameA>>
    /\ Len(entries) >= 2
    /\ entries[1].name # NameA
    /\ entries[Len(entries)].name = NameA

\* ---------------------------------------------------------------------------
\* One copy per name in a conversation
\* ---------------------------------------------------------------------------

\* the positions of the copies named n in the list s
CopiesOf(s, n) == {j \in 1..Len(s) : s[j].name = n}

\* the conversation held a copy of a candidate: right after attach it holds at
\* most one copy of that name, and that copy is the new clone
Reactivated ==
    \A i \in 1..Len(ret.had) :
        ret.had[i].name \in Range(ret.names) =>
            /\ Cardinality(CopiesOf(ret.mid, ret.had[i].name)) <= 1
            /\ \A j \in CopiesOf(ret.mid, ret.had[i].name) :
                  /\ ret.mid[j]._activated_at = now
                  /\ ret.mid[j]._inject_count = 0

\* C37: no conversation ever holds two entries of the same name; activating an
\* entry again replaces the copy the conversation held by the new one.
C37_OneCopyPerName ==
    /\ \A c \in DOMAIN data :
          \A n \in StoredNames(data, c) : Cardinality(CopiesOf(data[c], n)) = 1
    /\ ret.op = "llm" => Reactivated

\* a message has activated again an entry that the conversation held since an
\* earlier time and had rendered, and the conversation holds one copy of it
C37_Witness ==
    /\ ret.op = "llm"
    /\ \E i \in 1..Len(ret.had) :
          /\ ret.had[i].name \in Range(ret.names)
          /\ ret.had[i]._inject_count > 0
          /\ ret.had[i]._activated_at < now
          /\ Cardinality(CopiesOf(data[ret.umo], ret.had[i].name)) = 1

\* ---------------------------------------------------------------------------
\* SessionCache called directly
\* ---------------------------------------------------------------------------

\* the lists of registry entries attach is called with, by position
AttachLists == { {}, {1}, {2}, {1, 2} }

\* attach(umo, entries) with the registry entries at the positions cand
CacheAttach(umo, cand) ==
    /\ LET d == attach(data, umo, Pick(entries, cand), allow_same_priority, now) IN
       /\ data' = d
       /\ born' = Born(d, umo, Range(NamesOf(Pick(entries, cand))), {}, now)
       /\ ret' = [op |-> "attach", umo |-> umo,
                  names |-> NamesOf(Pick(entries, cand)),
                  had |-> StoredFor(data, umo), out |-> StoredFor(d, umo)]
    /\ UNCHANGED <<entries, entry_storage, jobs, started, loader, now,
                   allow_same_priority, max_inject_count>>

NextCache ==
    \/ Tick
    \/ \E umo \in UmosTwo, cand \in AttachLists : CacheAttach(umo, cand)
    \/ \E umo \in UmosTwo : OnCommand(umo)
    \/ \E umo \in UmosTwo, names \in {<<>>, <<NameA>>} : StopInject(umo, names)

SpecCache == InitTwo /\ [][NextCache]_vars

\* C38: a conversation key that is present maps to a non-empty entry list,
\* after any sequence of attach, get_sorted_active, remove and clear, attach
\* with an empty candidate list included.
C38_NoEmptyKey ==
    \A c \in DOMAIN data : data[c] # <<>>

\* ---------------------------------------------------------------------------
\* The registry entries carry no activation state
\* ---------------------------------------------------------------------------

\* C39: every entry of the registry has no activation time and an injection
\* count of 0 in every reachable state; activation and consumption touch the
\* session copies only.
C39_RegistryNeverActivated ==
    \A i \in 1..Len(entries) :
        /\ entries[i]._activated_at = None
        /\ entries[i]._inject_count = 0

\* a conversation holds a copy of A that has been stamped and rendered, while
\* the registry's A has not
C39_Witness ==
    /\ \E c \in DOMAIN data : \E j \in 1..Len(data[c]) :
          /\ data[c][j].name = NameA
          /\ data[c][j]._activated_at # None
          /\ data[c][j]._inject_count > 0
    /\ get_entry(entries, NameA)._activated_at = None
    /\ get_entry(entries, NameA)._inject_count = 0

\* ---------------------------------------------------------------------------
\* The cut at max_inject_count
\* ---------------------------------------------------------------------------

\* the entries of the conversation that are active when the message is
\* injected, in ascending order of priority
ActiveAtInjection ==
    SortByPriority(SelectSeq(ret.mid, LAMBDA e : active(e, now)))

====
